---- MODULE Spec2Model ----
(***************************************************************************)
(* Workspace indexing subsystem of the COBOL extension: the global symbol  *)
(* cache and its merge policy (cobolworkspacecache.ts), the scan           *)
(* coordinator and its IPC message handlers (vscobscanner.ts) and the scan *)
(* worker with its cache fingerprinting (cobscanner main, second half of   *)
(* cobolworkspacecache.ts).                                                *)
(***************************************************************************)
EXTENDS Integers, Sequences, FiniteSets, TLC

VARIABLES
    InMemoryGlobalSymbolCache,  \* the coordinator's cache: five symbol maps, knownCopybooks, sourceFilenameModified, isDirty
    lastOp,                     \* history: the operation applied last to the cache, and what it met
    fsMtime,                    \* the filesystem: source path -> modification time (ms) of the files that exist
    symFiles,                   \* the cache directory: artifact file name -> modification time of the .sym files that exist
    scannerFiles,               \* the worker process's own InMemoryGlobalSymbolCache.sourceFilenameModified
    lastCheck,                  \* history: the last call of cacheUpdateRequired, its inputs and its result
    activePid,                  \* VSCobScanner.activePid
    cacheDirectory,             \* VSCOBOLSourceScanner.getCacheDirectory(): where IsScannerActive looks for the lock
    foreignPids,                \* the process ids in use by processes the extension host may not signal
    jsonFiles,                  \* the scan request files that exist: path -> the ScanData saved there
    pendingScans,               \* calls of processAllFilesInWorkspaceOutOfProcess awaiting the directory enumeration: viaCommand -> count
    workers,                    \* the worker processes forked so far, by pid: process state, IPC channel, handler closure
    settings,                   \* the metadata arrays of the settings object (metadata_symbols, metadata_files, ...)
    workspaceStore,             \* the metadata arrays as last written to the workspace configuration
    progressStatusBarItem,      \* the progress indicator: visible, text
    lastRequest,                \* history: the scan request of the last step, what it met, what became of it and what it logged
    lastExit,                   \* history: the worker exit or spawn error handled by the last step, what the handler met and what it logged
    lastMessage,                \* history: the worker message handled by the last step, and what the handler logged
    wsDirs,                     \* the directories of the workspace folders: the tree, the directories that cannot be listed, the depth limit of the settings
    rootsLeft,                  \* the workspace folders processAllFilesInWorkspaceOutOfProcess has still to enumerate
    callStack,                  \* the active calls of generateCOBScannerData, innermost last: folder, dir2scan left, whether the depth was incremented
    stats,                      \* ScanStats: directoriesScanned, directoriesScannedMap, directoryDepth, maxDirectoryDepth, fileCount
    files2scan,                 \* the candidate file list
    scanLog,                    \* the folders named by a "has not been scanned" diagnostic
    copybookFiles,              \* the plain files of the copybook directories (what COBOLStatUtils.isFile answers)
    copybookConfig,             \* the combined copybook search path and config.copybookexts
    lastFind                    \* history: the copybook lookup of the last step and its result

cacheVars == <<InMemoryGlobalSymbolCache, lastOp>>
fingerprintVars == <<fsMtime, symFiles, scannerFiles, lastCheck>>
scannerVars == <<activePid, cacheDirectory, foreignPids, jsonFiles, pendingScans, workers, settings,
                 workspaceStore, progressStatusBarItem, lastRequest, lastExit, lastMessage>>
enumVars == <<wsDirs, rootsLeft, callStack, stats, files2scan, scanLog>>
resolverVars == <<copybookFiles, copybookConfig, lastFind>>
vars == <<cacheVars, fingerprintVars, scannerVars, enumVars, resolverVars>>

\* what each specification leaves alone
notCacheVars == <<fingerprintVars, scannerVars, enumVars, resolverVars>>
notFingerprintVars == <<cacheVars, scannerVars, enumVars, resolverVars>>

----------------------------------------------------------------------------
(* Bounds and value domains *)

\* cap on the number of FileSymbols held by the five symbol maps together
MaxEntries == 2

\* line numbers: 1 is the "home file" marker value, 10 an occurrence line
LineNumbers == {1, 10}

\* largest modification time of the model
MaxMtime == 2

\* number of worker processes forked in a run
MaxWorkers == 2

\* the source files of the workspace
WsFiles == {<<"ws", "A.cbl">>, <<"ws", "B.cpy">>}

\* the same files as a caller may spell them, not normalized
SpelledFiles == WsFiles \cup {<<"ws", ".", "A.cbl">>}

\* symbol names as the worker sends them (unchanged case)
RawNames == {"ALPHA", "alpha", "beta"}

\* file names as they travel in messages: paths, as sequences of components
MsgFiles == {<<"ws", "sub", "A.cbl">>, <<"ws", "B.cpy">>}

----------------------------------------------------------------------------
(* Helpers of the cache *)

\* String.prototype.toLowerCase on the names of the model
ToLower(s) ==
    CASE s = "ALPHA" -> "alpha"
      [] s = "Alpha" -> "alpha"
      [] s = "ALPHA-ENTRY" -> "alpha-entry"
      [] s = "OLD-ENTRY" -> "old-entry"
      [] s = "BETA" -> "beta"
      [] OTHER -> s

\* InMemoryGlobalCacheHelper.getFilenameWithoutPath: the last path component
getFilenameWithoutPath(fullPath) ==
    IF Len(fullPath) = 0 THEN fullPath ELSE <<fullPath[Len(fullPath)]>>

COBOLFileSymbol(filename, lnum) == [filename |-> filename, lnum |-> lnum]

EmptyMap == [k \in {} |-> <<>>]

MapSet(map, key, value) == [k \in (DOMAIN map) \cup {key} |-> IF k = key THEN value ELSE map[k]]

MapDelete(map, key) == [k \in (DOMAIN map) \ {key} |-> map[k]]

SetMax(S) == CHOOSE x \in S : \A y \in S : y <= x

\* mutant: a bucket emptied by the filter is stored instead of deleted
removeAllProgramSymbolsKeepEmpty(srcfilename, symbolsCache) ==
    [key \in DOMAIN symbolsCache |->
        SelectSeq(symbolsCache[key], LAMBDA s : s.filename # srcfilename)]

\* removeAllProgramSymbols: filter every bucket, delete the emptied ones
removeAllProgramSymbols(srcfilename, symbolsCache) ==
    LET newSymbols(key) == SelectSeq(symbolsCache[key], LAMBDA s : s.filename # srcfilename)
        deleted == {key \in DOMAIN symbolsCache :
                        /\ Len(newSymbols(key)) # Len(symbolsCache[key])
                        /\ Len(newSymbols(key)) = 0}
    IN  [key \in (DOMAIN symbolsCache) \ deleted |->
            IF Len(newSymbols(key)) # Len(symbolsCache[key])
            THEN newSymbols(key)
            ELSE symbolsCache[key]]

\* addSymbolToCache with its three decisions open: the key it looks up, whether
\* a single entry is updated whatever its line, and which entry of several is
\* updated
MergeWith(srcfilename, symbol, lineNumber, symbolsCache, updateFileLine, updateLast) ==
    IF symbol \in DOMAIN symbolsCache
    THEN LET symbolList == symbolsCache[symbol]
             found == {i \in 1..Len(symbolList) : symbolList[i].filename = srcfilename}
             nonFile == {i \in found : symbolList[i].lnum # 1}
             target == IF Cardinality(found) = 1
                       THEN IF updateFileLine THEN found ELSE nonFile
                       ELSE IF updateLast THEN {SetMax(found)}
                       ELSE IF nonFile = {} THEN {} ELSE {SetMax(nonFile)}
         IN  IF found = {}
             THEN [map |-> MapSet(symbolsCache, symbol,
                              Append(symbolList, COBOLFileSymbol(srcfilename, lineNumber))),
                   dirty |-> TRUE]
             ELSE IF target = {} THEN [map |-> symbolsCache, dirty |-> FALSE]
             ELSE [map |-> MapSet(symbolsCache, symbol,
                              [symbolList EXCEPT ![SetMax(target)].lnum = lineNumber]),
                   dirty |-> TRUE]
    ELSE [map |-> MapSet(symbolsCache, symbol, <<COBOLFileSymbol(srcfilename, lineNumber)>>),
          dirty |-> TRUE]

\* mutant: a single entry at line 1 is not updated
addSymbolToCacheKeepFileLine(srcfilename, symbolUnchanged, lineNumber, symbolsCache) ==
    MergeWith(srcfilename, ToLower(symbolUnchanged), lineNumber, symbolsCache, FALSE, FALSE)

\* mutant: of several entries the last one is updated
addSymbolToCacheUpdateLast(srcfilename, symbolUnchanged, lineNumber, symbolsCache) ==
    MergeWith(srcfilename, ToLower(symbolUnchanged), lineNumber, symbolsCache, TRUE, TRUE)

\* mutant: the name is looked up as it is written
addSymbolToCacheCaseSensitive(srcfilename, symbolUnchanged, lineNumber, symbolsCache) ==
    MergeWith(srcfilename, symbolUnchanged, lineNumber, symbolsCache, TRUE, FALSE)

\* mutant: the new FileSymbol is pushed without searching the bucket
addSymbolToCacheAlwaysPush(srcfilename, symbolUnchanged, lineNumber, symbolsCache) ==
    LET symbol == ToLower(symbolUnchanged)
        old == IF symbol \in DOMAIN symbolsCache THEN symbolsCache[symbol] ELSE <<>>
    IN  [map |-> MapSet(symbolsCache, symbol, Append(old, COBOLFileSymbol(srcfilename, lineNumber))),
         dirty |-> TRUE]

\* addSymbolToCache: the merge policy; returns the new map and whether
\* isDirty was set
addSymbolToCache(srcfilename, symbolUnchanged, lineNumber, symbolsCache) ==
    LET symbol == ToLower(symbolUnchanged)
    IN  IF symbol \in DOMAIN symbolsCache
        THEN LET symbolList == symbolsCache[symbol]
                 found == {i \in 1..Len(symbolList) : symbolList[i].filename = srcfilename}
                 foundCount == Cardinality(found)
                 foundLast == IF found = {} THEN 0 ELSE SetMax(found)
                 nonFile == {i \in found : symbolList[i].lnum # 1}
                 foundLastNonFileSymbol == IF nonFile = {} THEN -1 ELSE SetMax(nonFile)
             IN  IF foundCount = 0
                 THEN [map |-> MapSet(symbolsCache, symbol,
                                  Append(symbolList, COBOLFileSymbol(srcfilename, lineNumber))),
                       dirty |-> TRUE]
                 ELSE IF foundCount = 1
                 THEN [map |-> MapSet(symbolsCache, symbol,
                                  [symbolList EXCEPT ![foundLast].lnum = lineNumber]),
                       dirty |-> TRUE]
                 ELSE IF foundLastNonFileSymbol # -1
                 THEN [map |-> MapSet(symbolsCache, symbol,
                                  [symbolList EXCEPT ![foundLastNonFileSymbol].lnum = lineNumber]),
                       dirty |-> TRUE]
                 ELSE [map |-> symbolsCache, dirty |-> FALSE]
        ELSE [map |-> MapSet(symbolsCache, symbol, <<COBOLFileSymbol(srcfilename, lineNumber)>>),
              dirty |-> TRUE]

\* the state of a freshly created InMemoryGlobalSymbolCache
EmptyCache ==
    [callableSymbols |-> EmptyMap, entryPoints |-> EmptyMap, types |-> EmptyMap,
     interfaces |-> EmptyMap, enums |-> EmptyMap, knownCopybooks |-> EmptyMap,
     sourceFilenameModified |-> EmptyMap, isDirty |-> FALSE]

\* the metadata arrays of the settings before anything was saved
EmptyMetadata ==
    [metadata_symbols |-> {}, metadata_entrypoints |-> {}, metadata_types |-> {},
     metadata_files |-> {}, metadata_knowncopybooks |-> {},
     cache_metadata_show_progress_messages |-> FALSE]

\* the five mappings of the SymbolTable
SymbolMaps == {"callableSymbols", "entryPoints", "types", "interfaces", "enums"}

\* apply addSymbolToCache to one mapping of a cache
AddTo(cache, field, srcfilename, symbolUnchanged, lineNumber) ==
    LET r == addSymbolToCache(getFilenameWithoutPath(srcfilename), symbolUnchanged,
                              lineNumber, cache[field])
    IN  [cache EXCEPT ![field] = r.map, !.isDirty = (@ \/ r.dirty)]

addSymbol(cache, srcfilename, symbolUnchanged, lineNumber) ==
    AddTo(cache, "callableSymbols", srcfilename, symbolUnchanged, lineNumber)

addEntryPoint(cache, srcfilename, symbolUnchanged, lineNumber) ==
    AddTo(cache, "entryPoints", srcfilename, symbolUnchanged, lineNumber)

\* mutant: every category is stored in types
CategoryMapTypesOnly(category) == "types"

\* TypeCategory -> mapping, as the switch of addClass selects it
CategoryMap(category) ==
    CASE category = "T" -> "types"
      [] category = "I" -> "interfaces"
      [] category = "E" -> "enums"
      [] OTHER -> "types"

addClass(cache, srcfilename, symbolUnchanged, lineNumber, category) ==
    AddTo(cache, CategoryMap(category), srcfilename, symbolUnchanged, lineNumber)

removeAllPrograms(cache, srcfilename) ==
    [cache EXCEPT !.callableSymbols =
        removeAllProgramSymbols(getFilenameWithoutPath(srcfilename), @)]

removeAllProgramEntryPoints(cache, srcfilename) ==
    [cache EXCEPT !.entryPoints =
        removeAllProgramSymbols(getFilenameWithoutPath(srcfilename), @)]

removeAllTypes(cache, srcfilename) ==
    [cache EXCEPT
        !.types = removeAllProgramSymbols(getFilenameWithoutPath(srcfilename), @),
        !.enums = removeAllProgramSymbols(getFilenameWithoutPath(srcfilename), @),
        !.interfaces = removeAllProgramSymbols(getFilenameWithoutPath(srcfilename), @)]

----------------------------------------------------------------------------
(* IPC messages and their effect on the cache (child.on('message')) *)

COBSCANNER_STATUS == "STATUS"
COBSCANNER_SENDEP == "SEND_ENTRYPOINT"
COBSCANNER_SENDPRGID == "SEND_PROGRAM_ID"
COBSCANNER_SENDCLASS == "SEND_CLASS"
COBSCANNER_SENDINTERFACE == "SEND_INTERFACE"
COBSCANNER_SENDENUM == "SEND_ENUM"
COBSCANNER_ADDFILE == "ADD_FILE"
COBSCANNER_KNOWNCOPYBOOK == "KNOWN_COPYBOOK"

\* a symbol message "@@TAG,name,line,filename", as its fields
SymbolMsg(tag, name, line, filename) ==
    [tag |-> tag, name |-> name, line |-> line, filename |-> filename]

\* mutant: SEND_PROGRAM_ID without the two removals
ApplySendPrgIdNoClear(cache, msg) ==
    addSymbol(cache, msg.filename, msg.name, msg.line)

\* COBSCANNER_SENDPRGID branch: clear entry points and types of the file,
\* then insert the program symbol
ApplySendPrgId(cache, msg) ==
    addSymbol(removeAllTypes(removeAllProgramEntryPoints(cache, msg.filename), msg.filename),
              msg.filename, msg.name, msg.line)

\* the symbol branches of the message handler
ApplySymbolMessage(cache, msg) ==
    CASE msg.tag = COBSCANNER_SENDEP -> addEntryPoint(cache, msg.filename, msg.name, msg.line)
      [] msg.tag = COBSCANNER_SENDPRGID -> ApplySendPrgId(cache, msg)
      [] msg.tag = COBSCANNER_SENDCLASS -> addClass(cache, msg.filename, msg.name, msg.line, "T")
      [] msg.tag = COBSCANNER_SENDINTERFACE -> addClass(cache, msg.filename, msg.name, msg.line, "I")
      [] msg.tag = COBSCANNER_SENDENUM -> addClass(cache, msg.filename, msg.name, msg.line, "E")
      [] OTHER -> cache

----------------------------------------------------------------------------
(* Observations on a cache *)

\* the FileSymbols of mapping `field` attributed to the short name of srcfilename
EntriesOf(cache, field, srcfilename) ==
    {<<key, i>> \in (DOMAIN cache[field]) \X (1..MaxEntries + 2) :
        /\ i <= Len(cache[field][key])
        /\ cache[field][key][i].filename = getFilenameWithoutPath(srcfilename)}

RECURSIVE SumLen(_, _)
SumLen(map, keys) ==
    IF keys = {} THEN 0
    ELSE LET k == CHOOSE x \in keys : TRUE
         IN  Len(map[k]) + SumLen(map, keys \ {k})

TotalEntries(cache) ==
    SumLen(cache.callableSymbols, DOMAIN cache.callableSymbols)
    + SumLen(cache.entryPoints, DOMAIN cache.entryPoints)
    + SumLen(cache.types, DOMAIN cache.types)
    + SumLen(cache.interfaces, DOMAIN cache.interfaces)
    + SumLen(cache.enums, DOMAIN cache.enums)

\* the mapping a symbol message adds to
TargetMap(tag) ==
    CASE tag = COBSCANNER_SENDEP -> "entryPoints"
      [] tag = COBSCANNER_SENDPRGID -> "callableSymbols"
      [] tag = COBSCANNER_SENDCLASS -> "types"
      [] tag = COBSCANNER_SENDINTERFACE -> "interfaces"
      [] tag = COBSCANNER_SENDENUM -> "enums"

\* what an operation met in the cache it was applied to
Met(cache, msg) ==
    [existed |-> /\ ToLower(msg.name) \in DOMAIN cache[TargetMap(msg.tag)]
                 /\ \E i \in 1..Len(cache[TargetMap(msg.tag)][ToLower(msg.name)]) :
                        cache[TargetMap(msg.tag)][ToLower(msg.name)][i].filename
                            = getFilenameWithoutPath(msg.filename),
     hadEntryPoints |-> EntriesOf(cache, "entryPoints", msg.filename) # {},
     hadTypes |-> EntriesOf(cache, "types", msg.filename)
                    \cup EntriesOf(cache, "interfaces", msg.filename)
                    \cup EntriesOf(cache, "enums", msg.filename) # {},
     hadPrograms |-> {e \in EntriesOf(cache, "callableSymbols", msg.filename) :
                        e[1] # ToLower(msg.name)} # {}]

NoOp == [op |-> "none"]

----------------------------------------------------------------------------
(* SpecCache: the cache under any sequence of symbol messages and removals *)

SymbolTags == {COBSCANNER_SENDEP, COBSCANNER_SENDPRGID, COBSCANNER_SENDCLASS,
               COBSCANNER_SENDINTERFACE, COBSCANNER_SENDENUM}

\* ScanStats before a scan
NewScanStats ==
    [directoriesScanned |-> 0, directoriesScannedMap |-> {}, directoryDepth |-> 0,
     maxDirectoryDepth |-> 0, fileCount |-> 0, filesIgnored |-> 0]

\* no directory enumeration is under way
IdleEnum ==
    /\ wsDirs = [dirs |-> {}, unreadable |-> {}, limit |-> 0,
                 program_extensions |-> <<>>, copybookexts |-> <<>>]
    /\ rootsLeft = <<>>
    /\ callStack = <<>>
    /\ stats = NewScanStats
    /\ files2scan = <<>>
    /\ scanLog = {}

\* no copybook is looked up
IdleResolver ==
    /\ copybookFiles = {}
    /\ copybookConfig = [searchPath |-> <<>>, copybookexts |-> <<>>]
    /\ lastFind = NoOp

\* the parts of the state a specification does not use stay as they are here
IdleCache ==
    /\ InMemoryGlobalSymbolCache = EmptyCache
    /\ lastOp = NoOp

IdleScanner ==
    /\ activePid = 0
    /\ cacheDirectory = "cachedir"
    /\ foreignPids = {}
    /\ jsonFiles = EmptyMap
    /\ pendingScans = [viaCommand \in BOOLEAN |-> 0]
    /\ workers = EmptyMap
    /\ settings = EmptyMetadata
    /\ workspaceStore = EmptyMetadata
    /\ progressStatusBarItem = [visible |-> FALSE, text |-> -1]
    /\ lastRequest = NoOp
    /\ lastExit = NoOp
    /\ lastMessage = NoOp

IdleFingerprint ==
    /\ fsMtime = EmptyMap
    /\ symFiles = EmptyMap
    /\ scannerFiles = EmptyMap
    /\ lastCheck = NoOp

InitCache ==
    /\ InMemoryGlobalSymbolCache = EmptyCache
    /\ lastOp = NoOp
    /\ IdleFingerprint
    /\ IdleEnum
    /\ IdleResolver
    /\ IdleScanner

\* the coordinator applies one symbol message
ReceiveSymbolMessage ==
    \E tag \in SymbolTags, name \in RawNames, line \in LineNumbers, f \in MsgFiles :
        LET msg == SymbolMsg(tag, name, line, f)
            next == ApplySymbolMessage(InMemoryGlobalSymbolCache, msg)
        IN  /\ TotalEntries(next) <= MaxEntries
            /\ InMemoryGlobalSymbolCache' = next
            /\ lastOp' = [op |-> "message", tag |-> tag, key |-> ToLower(name),
                          filename |-> getFilenameWithoutPath(f), line |-> line,
                          met |-> Met(InMemoryGlobalSymbolCache, msg)]
            /\ UNCHANGED notCacheVars

\* the removal entry points of the helper, called directly
CallRemoveAllPrograms ==
    \E f \in MsgFiles :
        /\ InMemoryGlobalSymbolCache' = removeAllPrograms(InMemoryGlobalSymbolCache, f)
        /\ lastOp' = [op |-> "removeAllPrograms", filename |-> getFilenameWithoutPath(f),
                      hit |-> EntriesOf(InMemoryGlobalSymbolCache, "callableSymbols", f) # {}]
        /\ UNCHANGED notCacheVars

CallRemoveAllProgramEntryPoints ==
    \E f \in MsgFiles :
        /\ InMemoryGlobalSymbolCache' = removeAllProgramEntryPoints(InMemoryGlobalSymbolCache, f)
        /\ lastOp' = [op |-> "removeAllProgramEntryPoints", filename |-> getFilenameWithoutPath(f),
                      hit |-> EntriesOf(InMemoryGlobalSymbolCache, "entryPoints", f) # {}]
        /\ UNCHANGED notCacheVars

CallRemoveAllTypes ==
    \E f \in MsgFiles :
        /\ InMemoryGlobalSymbolCache' = removeAllTypes(InMemoryGlobalSymbolCache, f)
        /\ lastOp' = [op |-> "removeAllTypes", filename |-> getFilenameWithoutPath(f),
                      hit |-> EntriesOf(InMemoryGlobalSymbolCache, "types", f)
                                \cup EntriesOf(InMemoryGlobalSymbolCache, "interfaces", f)
                                \cup EntriesOf(InMemoryGlobalSymbolCache, "enums", f) # {}]
        /\ UNCHANGED notCacheVars

NextCache ==
    \/ ReceiveSymbolMessage
    \/ CallRemoveAllPrograms
    \/ CallRemoveAllProgramEntryPoints
    \/ CallRemoveAllTypes

SpecCache == InitCache /\ [][NextCache]_vars

----------------------------------------------------------------------------
(* Claims on the merge policy *)

\* C1 (merge uniqueness): in every bucket of every mapping of the SymbolTable
\* no two FileSymbols carry the same filename.
MergeUniqueness ==
    \A field \in SymbolMaps :
        \A key \in DOMAIN InMemoryGlobalSymbolCache[field] :
            LET bucket == InMemoryGlobalSymbolCache[field][key]
            IN  \A i, j \in 1..Len(bucket) :
                    bucket[i].filename = bucket[j].filename => i = j

\* C1 witness: an add met an entry of its own (name, file) in a bucket that
\* also holds another file's entry
MergeUniquenessWitness ==
    /\ lastOp.op = "message"
    /\ lastOp.met.existed
    /\ Len(InMemoryGlobalSymbolCache[TargetMap(lastOp.tag)][lastOp.key]) = 2

\* C2 (empty-bucket collection): no mapping of the SymbolTable holds a key
\* whose value list is empty.
NoEmptyBucket ==
    \A field \in SymbolMaps :
        \A key \in DOMAIN InMemoryGlobalSymbolCache[field] :
            Len(InMemoryGlobalSymbolCache[field][key]) > 0

\* C2 witness: a removal took the last symbol of a name and the mapping has
\* no key left
NoEmptyBucketWitness ==
    /\ lastOp.op = "removeAllPrograms"
    /\ lastOp.hit
    /\ DOMAIN InMemoryGlobalSymbolCache.callableSymbols = {}

\* the last operation was SEND_PROGRAM_ID for a file that had entry points,
\* types, interfaces or enums attributed to it
RedefinedProgram ==
    /\ lastOp.op = "message"
    /\ lastOp.tag = COBSCANNER_SENDPRGID
    /\ (lastOp.met.hadEntryPoints \/ lastOp.met.hadTypes)

\* no entry point, type, interface or enum is attributed to filename
NoEntryPointsOrTypes(cache, filename) ==
    \A field \in {"entryPoints", "types", "interfaces", "enums"} :
        EntriesOf(cache, field, filename) = {}

\* C3 as stated (destructive program redefinition): after SEND_PROGRAM_ID for F
\* no entry point, type, interface or enum is attributed to F and the only
\* symbol attributed to F is the new program symbol.
OnlyNewProgramSymbol ==
    RedefinedProgram =>
        /\ NoEntryPointsOrTypes(InMemoryGlobalSymbolCache, lastOp.filename)
        /\ \A e \in EntriesOf(InMemoryGlobalSymbolCache, "callableSymbols", lastOp.filename) :
                e[1] = lastOp.key

\* C3 amended: after SEND_PROGRAM_ID for F no entry point, type, interface or
\* enum is attributed to F, callableSymbols holds exactly one entry for F under
\* the lower-cased program name, at the line sent, and the program symbols F
\* had under other names are still there.
ProgramRedefinition ==
    RedefinedProgram =>
        /\ NoEntryPointsOrTypes(InMemoryGlobalSymbolCache, lastOp.filename)
        /\ lastOp.key \in DOMAIN InMemoryGlobalSymbolCache.callableSymbols
        /\ \E i \in 1..Len(InMemoryGlobalSymbolCache.callableSymbols[lastOp.key]) :
                /\ InMemoryGlobalSymbolCache.callableSymbols[lastOp.key][i]
                        = COBOLFileSymbol(lastOp.filename, lastOp.line)
                /\ \A e \in EntriesOf(InMemoryGlobalSymbolCache, "callableSymbols", lastOp.filename) :
                        e[1] = lastOp.key => e[2] = i
        /\ lastOp.met.hadPrograms =>
                \E e \in EntriesOf(InMemoryGlobalSymbolCache, "callableSymbols", lastOp.filename) :
                    e[1] # lastOp.key

\* C3 witness: SEND_PROGRAM_ID met both an entry point and a type of its file
ProgramRedefinitionWitness ==
    /\ lastOp.op = "message"
    /\ lastOp.tag = COBSCANNER_SENDPRGID
    /\ lastOp.met.hadEntryPoints
    /\ lastOp.met.hadTypes

----------------------------------------------------------------------------
(* SpecMerge: addSymbolToCache on any bucket, also on buckets that hold
   several entries of one file *)

\* the FileSymbols of the model
FileSymbols == {COBOLFileSymbol(getFilenameWithoutPath(f), l) : f \in MsgFiles, l \in LineNumbers}

\* the buckets of up to n FileSymbols
Buckets(n) == UNION {[1..k -> FileSymbols] : k \in 1..n}

\* one add operation of the helper on the mapping `field`
AddOperation(cache, field, srcfilename, symbolUnchanged, lineNumber) ==
    CASE field = "callableSymbols" -> addSymbol(cache, srcfilename, symbolUnchanged, lineNumber)
      [] field = "entryPoints" -> addEntryPoint(cache, srcfilename, symbolUnchanged, lineNumber)
      [] field = "types" -> addClass(cache, srcfilename, symbolUnchanged, lineNumber, "T")
      [] field = "interfaces" -> addClass(cache, srcfilename, symbolUnchanged, lineNumber, "I")
      [] field = "enums" -> addClass(cache, srcfilename, symbolUnchanged, lineNumber, "E")

\* a cache that is empty or holds one bucket, under the key "alpha" of one
\* mapping; its dirty flag is set or not
InitMerge ==
    /\ \E dirty \in BOOLEAN :
        \/ InMemoryGlobalSymbolCache = [EmptyCache EXCEPT !.isDirty = dirty]
        \/ \E field \in SymbolMaps, bucket \in Buckets(MaxEntries + 1) :
                InMemoryGlobalSymbolCache =
                    [EmptyCache EXCEPT ![field] = MapSet(EmptyMap, "alpha", bucket),
                                       !.isDirty = dirty]
    /\ lastOp = NoOp
    /\ IdleFingerprint
    /\ IdleEnum
    /\ IdleResolver
    /\ IdleScanner

\* an add operation of the helper is called, on the one mapping in use
CallAdd ==
    \E field \in SymbolMaps, name \in RawNames, line \in LineNumbers, f \in MsgFiles :
        LET next == AddOperation(InMemoryGlobalSymbolCache, field, f, name, line)
        IN  /\ \A other \in SymbolMaps \ {field} :
                    InMemoryGlobalSymbolCache[other] = EmptyMap
            /\ TotalEntries(next) <= MaxEntries + 1
            /\ InMemoryGlobalSymbolCache' = next
            /\ lastOp' = [op |-> "add", field |-> field, name |-> name,
                          filename |-> getFilenameWithoutPath(f), line |-> line,
                          before |-> InMemoryGlobalSymbolCache]
            /\ UNCHANGED notCacheVars

NextMerge == CallAdd

SpecMerge == InitMerge /\ [][NextMerge]_vars

\* the positions of the bucket of `key` in `map` that hold an entry of filename
FoundIn(map, key, filename) ==
    IF key \in DOMAIN map
    THEN {i \in 1..Len(map[key]) : map[key][i].filename = filename}
    ELSE {}

\* the entries the last add met under its lower-cased name for its file
LastFound == FoundIn(lastOp.before[lastOp.field], ToLower(lastOp.name), lastOp.filename)

\* the last add changed its mapping only by setting the line of entry i
OnlyLineSet(i) ==
    LET key == ToLower(lastOp.name)
        old == lastOp.before[lastOp.field]
    IN  InMemoryGlobalSymbolCache[lastOp.field] =
            [old EXCEPT ![key] = [old[key] EXCEPT ![i].lnum = lastOp.line]]

\* C27 (in-place update): when exactly one entry exists for (name, file),
\* the add sets that entry's line to the new line, also when its line was 1,
\* and changes nothing else: length and order of the bucket, the entries of
\* other files and the other buckets are as before.
InPlaceUpdate ==
    (lastOp.op = "add" /\ Cardinality(LastFound) = 1)
    => \E i \in LastFound : OnlyLineSet(i)

\* C27 witness: an add with line 10 met one entry of its file at line 1, in a
\* bucket that holds the entry of another file before it
InPlaceUpdateWitness ==
    /\ lastOp.op = "add"
    /\ lastOp.line = 10
    /\ LastFound = {2}
    /\ lastOp.before[lastOp.field][ToLower(lastOp.name)][2].lnum = 1
    /\ InMemoryGlobalSymbolCache[lastOp.field][ToLower(lastOp.name)][2].lnum = 10

\* C28 (defensive duplicate case): when more than one entry exists for
\* (name, file), the add sets only the line of the last of them whose line is
\* not 1, adding and removing nothing, and when all of them have line 1 the
\* cache, dirty flag included, stays as it was.
DuplicateUpdate ==
    (lastOp.op = "add" /\ Cardinality(LastFound) > 1)
    => LET old == lastOp.before[lastOp.field][ToLower(lastOp.name)]
           nonFile == {i \in LastFound : old[i].lnum # 1}
       IN  IF nonFile = {}
           THEN InMemoryGlobalSymbolCache = lastOp.before
           ELSE OnlyLineSet(CHOOSE i \in nonFile : \A j \in nonFile : j <= i)

\* C28 witness: of two entries of the file, at lines 10 and 1 in this order,
\* the add with line 1 changed the first
DuplicateUpdateWitness ==
    /\ lastOp.op = "add"
    /\ lastOp.line = 1
    /\ LastFound = {1, 2}
    /\ lastOp.before[lastOp.field][ToLower(lastOp.name)][1].lnum = 10
    /\ lastOp.before[lastOp.field][ToLower(lastOp.name)][2].lnum = 1
    /\ InMemoryGlobalSymbolCache[lastOp.field][ToLower(lastOp.name)][1].lnum = 1

\* C29 (case folding): every key of every mapping of the SymbolTable is
\* lower-cased, and an add whose name differs only in letter case from the key
\* of an entry of the same file updates that entry and adds none.
CaseFolding ==
    /\ \A field \in SymbolMaps :
            \A key \in DOMAIN InMemoryGlobalSymbolCache[field] : ToLower(key) = key
    /\ (lastOp.op = "add" /\ LastFound # {})
        => /\ DOMAIN InMemoryGlobalSymbolCache[lastOp.field]
                = DOMAIN lastOp.before[lastOp.field]
           /\ Len(InMemoryGlobalSymbolCache[lastOp.field][ToLower(lastOp.name)])
                = Len(lastOp.before[lastOp.field][ToLower(lastOp.name)])

\* C29 witness: ALPHA was added for a file that has one entry under alpha, at
\* another line, and the entry now carries the new line
CaseFoldingWitness ==
    /\ lastOp.op = "add"
    /\ lastOp.name = "ALPHA"
    /\ LastFound = {1}
    /\ lastOp.before[lastOp.field]["alpha"][1].lnum # lastOp.line
    /\ InMemoryGlobalSymbolCache[lastOp.field]["alpha"]
            = <<COBOLFileSymbol(lastOp.filename, lastOp.line)>>

----------------------------------------------------------------------------
(* Cache invalidation in the worker (Utils.cacheUpdateRequired) *)

\* path.normalize: "." components are dropped
Normalize(nfilename) == SelectSeq(nfilename, LAMBDA c : c # ".")

\* Utils.getHashForFilename and the artifact's name: <cacheDirectory>/<sha256 hex>.sym
SymFileFor(cacheDir, filename) == <<cacheDir, <<"sha256", filename>>, ".sym">>

COBOLWorkspaceFile(lastModifiedTime, workspaceFilename) ==
    [lastModifiedTime |-> lastModifiedTime, workspaceFilename |-> workspaceFilename]

\* the outcome of a call: a boolean result, or the exception of fs.statSync
Returns(b) == [throws |-> FALSE, required |-> b]
Throws == [throws |-> TRUE, required |-> FALSE]

\* mutant: every file needs a rescan
cacheUpdateRequiredAlways(records, files, artifacts, cacheDir, nfilename) ==
    Returns(TRUE)

\* mutant: the in-memory comparison with <= for <
cacheUpdateRequiredLessEqual(records, files, artifacts, cacheDir, nfilename) ==
    LET filename == Normalize(nfilename)
    IN  IF filename \in DOMAIN records
        THEN IF filename \notin DOMAIN files THEN Throws
             ELSE Returns(records[filename].lastModifiedTime <= files[filename])
        ELSE Returns(TRUE)

\* mutant: without the artifact tier, a file with no record needs a rescan
cacheUpdateRequiredNoArtifactTier(records, files, artifacts, cacheDir, nfilename) ==
    LET filename == Normalize(nfilename)
    IN  IF filename \in DOMAIN records
        THEN IF filename \notin DOMAIN files THEN Throws
             ELSE Returns(records[filename].lastModifiedTime < files[filename])
        ELSE Returns(TRUE)

\* mutant: the artifact is consulted before the in-memory record
cacheUpdateRequiredArtifactFirst(records, files, artifacts, cacheDir, nfilename) ==
    LET filename == Normalize(nfilename)
        fn == SymFileFor(cacheDir, filename)
    IN  IF fn \in DOMAIN artifacts
        THEN IF filename \notin DOMAIN files THEN Throws
             ELSE Returns(artifacts[fn] < files[filename])
        ELSE IF filename \in DOMAIN records
        THEN IF filename \notin DOMAIN files THEN Throws
             ELSE Returns(records[filename].lastModifiedTime < files[filename])
        ELSE Returns(TRUE)

\* Utils.cacheUpdateRequired, on the worker's records, the source files and
\* the artifacts of the cache directory
cacheUpdateRequired(records, files, artifacts, cacheDir, nfilename) ==
    LET filename == Normalize(nfilename)
        fn == SymFileFor(cacheDir, filename)
    IN  IF filename \in DOMAIN records
        THEN IF filename \notin DOMAIN files THEN Throws
             ELSE Returns(records[filename].lastModifiedTime < files[filename])
        ELSE IF fn \in DOMAIN artifacts
        THEN IF filename \notin DOMAIN files THEN Throws
             ELSE Returns(artifacts[fn] < files[filename])
        ELSE Returns(TRUE)

\* the cache directory the worker is given (scanData.cacheDirectory)
CacheDir == "cachedir"

Mtimes == 1..MaxMtime

\* partial maps from the set keys to the set values
PartialMaps(keys, values) == UNION {[d -> values] : d \in SUBSET keys}

----------------------------------------------------------------------------
(* SpecFingerprint: cacheUpdateRequired on any records, files and artifacts *)

InitFingerprint ==
    /\ fsMtime \in PartialMaps(WsFiles, Mtimes)
    /\ symFiles \in PartialMaps({SymFileFor(CacheDir, f) : f \in WsFiles}, Mtimes)
    /\ scannerFiles \in PartialMaps(WsFiles,
            {COBOLWorkspaceFile(t, Tail(f)) : t \in Mtimes, f \in WsFiles})
    /\ \A f \in DOMAIN scannerFiles : scannerFiles[f].workspaceFilename = Tail(f)
    /\ lastCheck = NoOp
    /\ IdleEnum
    /\ IdleResolver
    /\ IdleCache
    /\ IdleScanner

\* the worker asks whether a file of its list needs a rescan
CheckUpdateRequired ==
    \E f \in SpelledFiles :
        /\ lastCheck' = [op |-> "cacheUpdateRequired", nfilename |-> f,
                         records |-> scannerFiles, files |-> fsMtime, artifacts |-> symFiles,
                         result |-> cacheUpdateRequired(scannerFiles, fsMtime, symFiles, CacheDir, f)]
        /\ UNCHANGED <<fsMtime, symFiles, scannerFiles>>
        /\ UNCHANGED notFingerprintVars

\* a source file is edited: its modification time increases
TouchFile ==
    \E f \in DOMAIN fsMtime :
        /\ fsMtime[f] < MaxMtime
        /\ fsMtime' = [fsMtime EXCEPT ![f] = @ + 1]
        /\ UNCHANGED <<symFiles, scannerFiles, lastCheck>>
        /\ UNCHANGED notFingerprintVars

NextFingerprint ==
    \/ CheckUpdateRequired
    \/ TouchFile

SpecFingerprint == InitFingerprint /\ [][NextFingerprint]_vars

\* C6 (invalidation, in-memory tier): for a file that has an in-memory
\* SourceFileRecord under its normalized path, cacheUpdateRequired returns true
\* when the file's modification time is greater than the recorded one and
\* false when it is equal.
InMemoryInvalidation ==
    (/\ lastCheck.op = "cacheUpdateRequired"
     /\ Normalize(lastCheck.nfilename) \in DOMAIN lastCheck.records
     /\ Normalize(lastCheck.nfilename) \in DOMAIN lastCheck.files)
    => LET f == Normalize(lastCheck.nfilename)
           cached == lastCheck.records[f].lastModifiedTime
           current == lastCheck.files[f]
       IN  /\ ~lastCheck.result.throws
           /\ current > cached => lastCheck.result.required
           /\ current = cached => ~lastCheck.result.required

\* C6 witness: a file was edited after it was recorded and the check, asked
\* with a path that is not normalized, said so
InMemoryInvalidationWitness ==
    /\ lastCheck.op = "cacheUpdateRequired"
    /\ lastCheck.nfilename # Normalize(lastCheck.nfilename)
    /\ Normalize(lastCheck.nfilename) \in DOMAIN lastCheck.records
    /\ Normalize(lastCheck.nfilename) \in DOMAIN lastCheck.files
    /\ lastCheck.files[Normalize(lastCheck.nfilename)]
            > lastCheck.records[Normalize(lastCheck.nfilename)].lastModifiedTime
    /\ lastCheck.result.required

\* C24 (artifact tier): for a file that exists and has no in-memory
\* SourceFileRecord, cacheUpdateRequired returns true when no artifact named by
\* the hash of the normalized path exists, and with an artifact returns true
\* exactly when the artifact's modification time is less than the file's.
ArtifactTier ==
    (/\ lastCheck.op = "cacheUpdateRequired"
     /\ Normalize(lastCheck.nfilename) \notin DOMAIN lastCheck.records
     /\ Normalize(lastCheck.nfilename) \in DOMAIN lastCheck.files)
    => LET f == Normalize(lastCheck.nfilename)
           fn == <<CacheDir, <<"sha256", f>>, ".sym">>
       IN  /\ ~lastCheck.result.throws
           /\ lastCheck.result.required
                <=> (\/ fn \notin DOMAIN lastCheck.artifacts
                     \/ lastCheck.artifacts[fn] < lastCheck.files[f])

\* C24 witness: a file without a record, asked for with a path that is not
\* normalized, has an artifact as new as itself and needs no rescan
ArtifactTierWitness ==
    /\ lastCheck.op = "cacheUpdateRequired"
    /\ lastCheck.nfilename # Normalize(lastCheck.nfilename)
    /\ Normalize(lastCheck.nfilename) \notin DOMAIN lastCheck.records
    /\ Normalize(lastCheck.nfilename) \in DOMAIN lastCheck.files
    /\ SymFileFor(CacheDir, Normalize(lastCheck.nfilename)) \in DOMAIN lastCheck.artifacts
    /\ lastCheck.artifacts[SymFileFor(CacheDir, Normalize(lastCheck.nfilename))]
            = lastCheck.files[Normalize(lastCheck.nfilename)]
    /\ ~lastCheck.result.required

\* C25 (in-memory tier takes precedence): with an in-memory SourceFileRecord
\* under the normalized path, the outcome of cacheUpdateRequired is given by
\* the record's time and the file's modification time alone, whether the
\* artifact is missing, stale or fresh.
InMemoryPrecedence ==
    (/\ lastCheck.op = "cacheUpdateRequired"
     /\ Normalize(lastCheck.nfilename) \in DOMAIN lastCheck.records)
    => LET f == Normalize(lastCheck.nfilename)
       IN  IF f \in DOMAIN lastCheck.files
           THEN /\ ~lastCheck.result.throws
                /\ lastCheck.result.required
                     <=> lastCheck.records[f].lastModifiedTime < lastCheck.files[f]
           ELSE lastCheck.result.throws

\* C25 witness: the record is as new as the file, the artifact is older than
\* the file, and no rescan is required
InMemoryPrecedenceWitness ==
    /\ lastCheck.op = "cacheUpdateRequired"
    /\ Normalize(lastCheck.nfilename) \in DOMAIN lastCheck.records
    /\ Normalize(lastCheck.nfilename) \in DOMAIN lastCheck.files
    /\ lastCheck.records[Normalize(lastCheck.nfilename)].lastModifiedTime
            = lastCheck.files[Normalize(lastCheck.nfilename)]
    /\ SymFileFor(CacheDir, Normalize(lastCheck.nfilename)) \in DOMAIN lastCheck.artifacts
    /\ lastCheck.artifacts[SymFileFor(CacheDir, Normalize(lastCheck.nfilename))]
            < lastCheck.files[Normalize(lastCheck.nfilename)]
    /\ ~lastCheck.result.required

----------------------------------------------------------------------------
(* The coordinator: message handler, exit handler, lock check *)

\* the workspace folders of the session (getWorkspaceFolders); the model has
\* one folder open
WsRoots == {<<"ws">>}

\* no path: what the resolving helpers return for "undefined"
Undefined == <<>>

\* COBOLStatUtils.getShortWorkspaceFilename: the path below its workspace folder
getShortWorkspaceFilename(fullFilename) ==
    IF Len(fullFilename) > 1 /\ <<fullFilename[1]>> \in WsRoots
    THEN Tail(fullFilename)
    ELSE Undefined

\* InMemoryGlobalCacheHelper.addFilename: record or replace, mark dirty
addFilename(cache, fullFilename, cws) ==
    [cache EXCEPT !.sourceFilenameModified = MapSet(@, fullFilename, cws),
                  !.isDirty = TRUE]

\* the text of a file name without its path
PathText(p) == p[Len(p)]

\* loadGlobalKnownCopybooksFromArray: every item "a,b" of the array is set as
\* a key, with its second field as the value
RECURSIVE loadGlobalKnownCopybooksFromArray(_, _, _)
loadGlobalKnownCopybooksFromArray(cache, copybookValues, clear) ==
    IF clear
    THEN loadGlobalKnownCopybooksFromArray([cache EXCEPT !.knownCopybooks = EmptyMap],
                                           copybookValues, FALSE)
    ELSE IF copybookValues = {} THEN cache
    ELSE LET symbol == CHOOSE x \in copybookValues : TRUE
             rest == loadGlobalKnownCopybooksFromArray(cache, copybookValues \ {symbol}, FALSE)
         IN  IF Len(symbol) = 2
             THEN [rest EXCEPT !.knownCopybooks = MapSet(@, symbol, PathText(symbol[2]))]
             ELSE rest

\* removeAllCopybookReferences: delete every key whose second field is the
\* file's name without its path
removeAllCopybookReferences(cache, fullInFilename) ==
    LET inFilename == getFilenameWithoutPath(fullInFilename)
        keysToRemove == {encodedKey \in DOMAIN cache.knownCopybooks :
                            encodedKey[2] = inFilename}
    IN  [cache EXCEPT !.knownCopybooks =
            [key \in (DOMAIN @) \ keysToRemove |-> @[key]]]

\* mutant: the dirty flag is set whether the key is new or not
addReferencedCopybookAlwaysDirty(cache, copybook, fullInFilename) ==
    LET encodedKey == <<copybook, getFilenameWithoutPath(fullInFilename)>>
    IN  [cache EXCEPT !.knownCopybooks =
                            IF encodedKey \in DOMAIN @ THEN @ ELSE MapSet(@, encodedKey, copybook),
                      !.isDirty = TRUE]

\* addReferencedCopybook: insert the composite key if it is new
addReferencedCopybook(cache, copybook, fullInFilename) ==
    LET encodedKey == <<copybook, getFilenameWithoutPath(fullInFilename)>>
    IN  IF encodedKey \notin DOMAIN cache.knownCopybooks
        THEN [cache EXCEPT !.knownCopybooks = MapSet(@, encodedKey, copybook),
                           !.isDirty = TRUE]
        ELSE cache

FileMsg(ms, fullFilename) == [tag |-> COBSCANNER_ADDFILE, ms |-> ms, filename |-> fullFilename]
StatusMsg(current, total) == [tag |-> COBSCANNER_STATUS, current |-> current, total |-> total]
CopybookMsg(copybook, inFilename) ==
    [tag |-> COBSCANNER_KNOWNCOPYBOOK, copybook |-> copybook, filename |-> inFilename]

\* mutant: the ADD_FILE branch without the removal of the entry points
ApplyAddFileKeepEntryPoints(cache, msg) ==
    LET shortFilename == getShortWorkspaceFilename(msg.filename)
    IN  IF shortFilename # Undefined
        THEN addFilename(cache, msg.filename, COBOLWorkspaceFile(msg.ms, shortFilename))
        ELSE cache

\* mutant: the ADD_FILE branch without the file record
ApplyAddFileNoRecord(cache, msg) ==
    LET shortFilename == getShortWorkspaceFilename(msg.filename)
    IN  IF shortFilename # Undefined
        THEN removeAllProgramEntryPoints(cache, shortFilename)
        ELSE cache

\* COBSCANNER_ADDFILE branch
ApplyAddFile(cache, msg) ==
    LET shortFilename == getShortWorkspaceFilename(msg.filename)
    IN  IF shortFilename # Undefined
        THEN removeAllProgramEntryPoints(
                addFilename(cache, msg.filename, COBOLWorkspaceFile(msg.ms, shortFilename)),
                shortFilename)
        ELSE cache

\* the effect of one message on the cache: every branch of the handler
ApplyMessage(cache, msg) ==
    CASE msg.tag \in SymbolTags -> ApplySymbolMessage(cache, msg)
      [] msg.tag = COBSCANNER_ADDFILE -> ApplyAddFile(cache, msg)
      [] msg.tag = COBSCANNER_KNOWNCOPYBOOK ->
            addReferencedCopybook(cache, msg.copybook, msg.filename)
      [] OTHER -> cache

\* ((a1 / a2) * 100) | 0
Percent(a1, a2) == IF a2 = 0 THEN 0 ELSE (a1 * 100) \div a2

\* a line that is not a control message, as the worker's logMessage sends it
PlainMsg(text) == [tag |-> "", text |-> text]

\* message.startsWith("@@"): a control message carries a tag
startsWithSentinel(msg) == msg.tag # ""

\* mutant: the progress text is written for every STATUS message
ApplyStatusAlwaysWrite(item, prevPercent, msg) ==
    [item |-> [visible |-> TRUE, text |-> Percent(msg.current, msg.total)],
     prevPercent |-> Percent(msg.current, msg.total)]

\* COBSCANNER_STATUS branch: show the item, write the text when the
\* percentage differs from prevPercent
ApplyStatus(item, prevPercent, msg) ==
    LET percent == Percent(msg.current, msg.total)
    IN  IF prevPercent # percent
        THEN [item |-> [visible |-> TRUE, text |-> percent], prevPercent |-> percent]
        ELSE [item |-> [item EXCEPT !.visible = TRUE], prevPercent |-> prevPercent]

\* mutant: plain lines are dropped
HandleMessageDropPlain(cache, item, prevPercent, msg) ==
    IF msg.tag = COBSCANNER_STATUS
    THEN [cache |-> cache, log |-> {}] @@ ApplyStatus(item, prevPercent, msg)
    ELSE [cache |-> IF startsWithSentinel(msg) THEN ApplyMessage(cache, msg) ELSE cache,
          item |-> item, prevPercent |-> prevPercent, log |-> {}]

\* the message handler: what it does to the cache and the progress item, the
\* prevPercent of its closure, and the lines it logs
HandleMessage(cache, item, prevPercent, msg) ==
    IF startsWithSentinel(msg)
    THEN IF msg.tag = COBSCANNER_STATUS
         THEN [cache |-> cache, log |-> {}] @@ ApplyStatus(item, prevPercent, msg)
         ELSE [cache |-> ApplyMessage(cache, msg), item |-> item,
               prevPercent |-> prevPercent, log |-> {}]
    ELSE [cache |-> cache, item |-> item, prevPercent |-> prevPercent,
          log |-> {msg.text}]

\* the scan request file of a directory: path.join(dir, ScanDataHelper.scanFilename)
JsonFile(dir) == <<dir, "scanfile.json">>

\* tempDirectory (temp-dir): where forkScanner saves the scan request
TempDir == "tmpdir"

\* whether the worker process pid runs
ProcessAlive(pid) == pid \in DOMAIN workers /\ workers[pid].exitCode = -1

\* process.kill(pid, 0): true for a process that can be signalled, or the code
\* of the error thrown (no number given, a process of another user, no such
\* process)
processKill(pid) ==
    IF pid < 0 THEN "ERR_INVALID_ARG_TYPE"
    ELSE IF ProcessAlive(pid) THEN "true"
    ELSE IF pid \in foreignPids THEN "EPERM"
    ELSE "ESRCH"

\* mutant: every error of the probe counts as dead
isAliveNoEperm(pid) == IF activePid = 0 THEN FALSE ELSE processKill(pid) = "true"

\* isAlive
isAlive(pid) ==
    IF activePid = 0 THEN FALSE
    ELSE LET r == processKill(pid)
         IN  IF r = "true" THEN TRUE ELSE r = "EPERM"

\* mutant: only the liveness probe decides
IsScannerActiveProbeOnly(dir) == isAlive(activePid)

\* IsScannerActive
IsScannerActive(dir) ==
    LET jsonFileExists == JsonFile(dir) \in DOMAIN jsonFiles
    IN  IF activePid = 0 THEN jsonFileExists
        ELSE IF jsonFileExists THEN jsonFileExists
        ELSE isAlive(activePid)

\* removeScannerFile: unlink, errors ignored
removeScannerFile(files, dir) == MapDelete(files, JsonFile(dir))

\* the settings with their metadata arrays rebuilt from a cache, one item per
\* entry, as its fields
MetadataOf(cache, sett) ==
    [metadata_symbols |->
        {<<k, cache.callableSymbols[k][i].filename>> :
            <<k, i>> \in {e \in (DOMAIN cache.callableSymbols) \X (1..MaxEntries + 2) :
                            e[2] <= Len(cache.callableSymbols[e[1]])}},
     metadata_entrypoints |->
        {<<k, cache.entryPoints[k][i].filename, cache.entryPoints[k][i].lnum>> :
            <<k, i>> \in {e \in (DOMAIN cache.entryPoints) \X (1..MaxEntries + 2) :
                            e[2] <= Len(cache.entryPoints[e[1]])}},
     metadata_types |->
        UNION {{<<CHOOSE c \in {"T", "I", "E"} : CategoryMap(c) = field, k,
                  cache[field][k][i].filename, cache[field][k][i].lnum>> :
                    <<k, i>> \in {e \in (DOMAIN cache[field]) \X (1..MaxEntries + 2) :
                                    e[2] <= Len(cache[field][e[1]])}} :
               field \in {"types", "interfaces", "enums"}},
     metadata_files |->
        {<<cache.sourceFilenameModified[f].lastModifiedTime,
           cache.sourceFilenameModified[f].workspaceFilename>> :
            f \in DOMAIN cache.sourceFilenameModified},
     metadata_knowncopybooks |-> DOMAIN cache.knownCopybooks,
     cache_metadata_show_progress_messages |-> sett.cache_metadata_show_progress_messages]

\* COBOLUtils.saveGlobalCacheToWorkspace: when the cache is dirty the metadata
\* arrays of the settings are rebuilt and, with update, written to the
\* workspace configuration; the dirty flag is cleared
saveGlobalCacheToWorkspace(cache, sett, store, update) ==
    IF cache.isDirty
    THEN [cache |-> [cache EXCEPT !.isDirty = FALSE],
          settings |-> MetadataOf(cache, sett),
          store |-> IF update THEN MetadataOf(cache, sett) ELSE store]
    ELSE [cache |-> cache, settings |-> sett, store |-> store]

\* mutant: the exit handler persists only after a clean exit
ExitHandlerSaveOnSuccess(code, showMessage) ==
    [activePid |-> 0,
     log |-> IF code # 0 /\ showMessage
             THEN {"External scan completed [Exit Code]"}
             ELSE {},
     hide |-> code = 0,
     save |-> code = 0]

\* mutant: the exit handler logs the exit code whatever sf.showMessage is
ExitHandlerAlwaysLog(code, showMessage) ==
    [activePid |-> 0,
     log |-> IF code # 0
             THEN {"External scan completed [Exit Code]"}
             ELSE {},
     hide |-> code = 0,
     save |-> TRUE]

\* child.on('exit'): what the handler does for an exit code, in the closure
\* of its fork (sf.showMessage)
ExitHandler(code, showMessage) ==
    [activePid |-> 0,
     log |-> IF code # 0 /\ showMessage
             THEN {"External scan completed [Exit Code]"}
             ELSE {},
     hide |-> code = 0,
     save |-> TRUE]

----------------------------------------------------------------------------
(* The worker process (cobscanner main) *)

\* ConsoleExternalFeatures.getFullWorkspaceFilename: the file below a
\* workspace folder, if it exists
getFullWorkspaceFilename(files, shortFilename) ==
    LET hits == {root \in WsRoots : root \o shortFilename \in DOMAIN files}
    IN  IF hits = {} THEN Undefined ELSE (CHOOSE root \in hits : TRUE) \o shortFilename

\* mutant: an item whose file does not resolve is skipped
dropUnresolvedKeep(cache, workspaceFilename) == cache

\* the else branch of loadFileCacheFromArray: the entry points and the types,
\* enums and interfaces of a file that does not resolve are removed
dropUnresolved(cache, workspaceFilename) ==
    removeAllTypes(removeAllProgramEntryPoints(cache, workspaceFilename), workspaceFilename)

\* loadFileCacheFromArray(features, files, clear): an item "mtime,file" that
\* resolves to a file of the workspace becomes a record under the full name;
\* one that does not resolve has its entry points and types removed; fsFiles
\* are the files that exist
RECURSIVE loadFileCacheFromArray(_, _, _, _)
loadFileCacheFromArray(cache, fsFiles, files, clear) ==
    IF clear
    THEN loadFileCacheFromArray([cache EXCEPT !.sourceFilenameModified = EmptyMap],
                                fsFiles, files, FALSE)
    ELSE IF files = {} THEN cache
    ELSE LET symbol == CHOOSE x \in files : TRUE
             rest == loadFileCacheFromArray(cache, fsFiles, files \ {symbol}, FALSE)
         IN  IF Len(symbol) = 2
             THEN LET fullDir == getFullWorkspaceFilename(fsFiles, symbol[2])
                  IN  IF fullDir # Undefined
                      THEN [rest EXCEPT !.sourceFilenameModified =
                                MapSet(@, fullDir, COBOLWorkspaceFile(symbol[1], symbol[2]))]
                      ELSE dropUnresolved(rest, symbol[2])
             ELSE rest

\* loadGlobalCacheFromArray(symbols, clear): every item "name,file" is added
\* as a program symbol
RECURSIVE loadGlobalCacheFromArray(_, _, _)
loadGlobalCacheFromArray(cache, symbols, clear) ==
    IF clear
    THEN loadGlobalCacheFromArray([cache EXCEPT !.callableSymbols = EmptyMap], symbols, FALSE)
    ELSE IF symbols = {} THEN cache
    ELSE LET symbolValues == CHOOSE x \in symbols : TRUE
             rest == loadGlobalCacheFromArray(cache, symbols \ {symbolValues}, FALSE)
         IN  IF Len(symbolValues) = 2
             THEN addSymbol(rest, symbolValues[2], symbolValues[1], 1)
             ELSE rest

\* loadGlobalEntryCacheFromArray(symbols, clear): every item "name,file,line"
\* is added as an entry point; clear clears callableSymbols
RECURSIVE loadGlobalEntryCacheFromArray(_, _, _)
loadGlobalEntryCacheFromArray(cache, symbols, clear) ==
    IF clear
    THEN loadGlobalEntryCacheFromArray([cache EXCEPT !.callableSymbols = EmptyMap],
                                       symbols, FALSE)
    ELSE IF symbols = {} THEN cache
    ELSE LET symbolValues == CHOOSE x \in symbols : TRUE
             rest == loadGlobalEntryCacheFromArray(cache, symbols \ {symbolValues}, FALSE)
         IN  IF Len(symbolValues) = 3
             THEN addEntryPoint(rest, symbolValues[2], symbolValues[1], symbolValues[3])
             ELSE rest

\* loadGlobalTypesCacheFromArray(symbols, clear): every item
\* "category,name,file,line" is added to the mapping of its category
RECURSIVE loadGlobalTypesCacheFromArray(_, _, _)
loadGlobalTypesCacheFromArray(cache, symbols, clear) ==
    IF clear
    THEN loadGlobalTypesCacheFromArray(
            [cache EXCEPT !.enums = EmptyMap, !.interfaces = EmptyMap, !.types = EmptyMap],
            symbols, FALSE)
    ELSE IF symbols = {} THEN cache
    ELSE LET symbolValues == CHOOSE x \in symbols : TRUE
             rest == loadGlobalTypesCacheFromArray(cache, symbols \ {symbolValues}, FALSE)
         IN  IF Len(symbolValues) = 4
             THEN addClass(rest, symbolValues[3], symbolValues[2], symbolValues[4],
                           symbolValues[1])
             ELSE rest

\* the load sequence of the worker for one scan request
loadSequence(cache, fsFiles, md) ==
    loadGlobalKnownCopybooksFromArray(
        loadFileCacheFromArray(
            loadGlobalTypesCacheFromArray(
                loadGlobalEntryCacheFromArray(
                    loadGlobalCacheFromArray(cache, md.metadata_symbols, TRUE),
                    md.metadata_entrypoints, TRUE),
                md.metadata_types, TRUE),
            fsFiles, md.metadata_files, TRUE),
        md.metadata_knowncopybooks, TRUE)

\* the per-file extractor (COBOLSourceScanner with COBOLSymbolTableEventHelper):
\* the symbol messages it sends for a file; A.cbl defines program ALPHA with
\* the entry point ALPHA-ENTRY at line 10, a copybook defines nothing
ExtractorOutput(file) ==
    IF file[Len(file)] = "A.cbl"
    THEN <<SymbolMsg(COBSCANNER_SENDPRGID, "ALPHA", 1, file),
           SymbolMsg(COBSCANNER_SENDEP, "ALPHA-ENTRY", 10, file)>>
    ELSE <<>>

\* (scanData.fileCount * 0.05) | 0
SendOn(fileCount) == (fileCount * 5) \div 100

\* the files a directory enumeration of the workspace finds, in order
WsFileOrder == <<<<"ws", "A.cbl">>, <<"ws", "B.cpy">>>>

SeqOfFiles(fileSet) == SelectSeq(WsFileOrder, LAMBDA f : f \in fileSet)

\* a ScanData as forkScanner saves it
ScanData(Files, fileCount, showMessage, metadata) ==
    [Files |-> Files, fileCount |-> fileCount, showMessage |-> showMessage,
     cacheDirectory |-> CacheDir, metadata |-> metadata]

\* a scan request left in the temporary directory by a worker of an earlier session
StaleScanData == ScanData(<<>>, 0, FALSE, EmptyMetadata)

\* an ended process: its memory is gone; the messages it sent and the closure
\* of the coordinator's handlers stay
Ended(w, code) ==
    [w EXCEPT !.pc = "done", !.exitCode = code, !.scanData = StaleScanData,
              !.sourceFilenameModified = EmptyMap, !.fCount = 0, !.fSendCount = 0,
              !.sent = 0]

\* a process forked by forkScanner: the child and the closure of its handlers
NewWorker(showMessage) ==
    [pc |-> "start", exitCode |-> -1, exitHandled |-> FALSE,
     jsonArg |-> JsonFile(TempDir), scanData |-> StaleScanData,
     sourceFilenameModified |-> EmptyMap, fCount |-> 0, fSendCount |-> 0,
     sent |-> 0, chan |-> <<>>,
     showMessage |-> showMessage, prevPercent |-> 0]

NumWorkers == Cardinality(DOMAIN workers)

NumPending == pendingScans[TRUE] + pendingScans[FALSE]

LiveWorkers == {pid \in DOMAIN workers : workers[pid].exitCode = -1}

\* child.pid of a child that could not be spawned: undefined, the pid of no
\* process and not 0
UndefinedPid == 0 - 1

\* mutant: the error handler leaves the scan request file
ErrorHandlerKeepFile(files, cache) ==
    [jsonFiles |-> files, cache |-> cache, log |-> {"Fork caused"}]

\* child.on('error'): remove the scan request file of tempDirectory, log
ErrorHandler(files, cache) ==
    [jsonFiles |-> removeScannerFile(files, TempDir), cache |-> cache,
     log |-> {"Fork caused"}]

\* mutant: the request is not written
saveSkipped(files, dir, sf) == files

\* ScanDataHelper.save(tempDirectory, sf): the request is written to the scan
\* request file of the directory
save(files, dir, sf) == MapSet(files, JsonFile(dir), sf)

\* forkScanner: save the request, fork, remember the pid. When the child
\* cannot be spawned, child.pid is undefined and the child emits 'error' (and
\* no 'exit') on the next tick, before any other event is handled
forkScanner(cache, sf, spawned) ==
    IF spawned
    THEN /\ jsonFiles' = save(jsonFiles, TempDir, sf)
         /\ workers' = MapSet(workers, NumWorkers + 1, NewWorker(sf.showMessage))
         /\ activePid' = NumWorkers + 1
         /\ InMemoryGlobalSymbolCache' = cache
         /\ lastExit' = NoOp
    ELSE LET h == ErrorHandler(save(jsonFiles, TempDir, sf), cache)
         IN  /\ jsonFiles' = h.jsonFiles
             /\ workers' = workers
             /\ activePid' = UndefinedPid
             /\ InMemoryGlobalSymbolCache' = h.cache
             /\ lastExit' = [op |-> "error", cache |-> cache, logged |-> h.log]

\* processAllFilesInWorkspaceOutOfProcess up to its first await
processAllFilesInWorkspaceOutOfProcess(viaCommand, deprecatedMode, cachingEnabled) ==
        LET active == IsScannerActive(cacheDirectory)
            refused == deprecatedMode /\ (~cachingEnabled \/ (active /\ viaCommand))
            released == deprecatedMode /\ cachingEnabled /\ active /\ ~viaCommand
        IN  /\ NumWorkers + NumPending < MaxWorkers
            /\ jsonFiles' = IF released THEN removeScannerFile(jsonFiles, cacheDirectory)
                             ELSE jsonFiles
            /\ lastRequest' = [op |-> "processAllFiles", viaCommand |-> viaCommand,
                  checked |-> deprecatedMode /\ cachingEnabled,
                  staleLock |-> /\ JsonFile(cacheDirectory) \in DOMAIN jsonFiles
                                /\ LiveWorkers = {},
                  proceeded |-> ~refused,
                  lockExists |-> JsonFile(cacheDirectory) \in DOMAIN jsonFiles',
                  logged |->
                    IF deprecatedMode /\ ~cachingEnabled
                        THEN {"Metadata cache is off, no action taken"}
                    ELSE IF released
                        THEN {"Source scanner lock file is present on startup",
                              " - lock file released",
                              "Starting to process metadata from workspace folders"}
                    ELSE IF refused
                        THEN {"Source scanner already active, no action taken"}
                    ELSE {"Starting to process metadata from workspace folders"}]
            /\ pendingScans' = IF refused THEN pendingScans
                                ELSE [pendingScans EXCEPT ![viaCommand] = @ + 1]
            /\ UNCHANGED <<activePid, cacheDirectory, foreignPids, workers,
                           settings, workspaceStore, progressStatusBarItem>>
            /\ lastExit' = NoOp /\ lastMessage' = NoOp
            /\ UNCHANGED <<cacheVars, fingerprintVars, enumVars, resolverVars>>

ProcessAllFilesBegin ==
    \E viaCommand \in BOOLEAN, deprecatedMode \in BOOLEAN, cachingEnabled \in BOOLEAN :
        processAllFilesInWorkspaceOutOfProcess(viaCommand, deprecatedMode, cachingEnabled)

\* processAllFilesInWorkspaceOutOfProcess after the directory enumeration:
\* save the cache to the settings, build the ScanData, fork
processAllFilesFork(viaCommand, spawned) ==
        LET files == SeqOfFiles(DOMAIN fsMtime)
            saved == saveGlobalCacheToWorkspace(InMemoryGlobalSymbolCache, settings,
                                                workspaceStore, FALSE)
            sf == ScanData(files, Len(files), settings.cache_metadata_show_progress_messages,
                           [saved.settings EXCEPT !.metadata_types = {}])
        IN  /\ pendingScans[viaCommand] > 0
            /\ pendingScans' = [pendingScans EXCEPT ![viaCommand] = @ - 1]
            /\ settings' = saved.settings
            /\ workspaceStore' = saved.store
            /\ forkScanner(saved.cache, sf, spawned)
            /\ UNCHANGED <<cacheDirectory, foreignPids, progressStatusBarItem>>
            /\ lastRequest' = NoOp
            /\ lastMessage' = NoOp
            /\ UNCHANGED <<lastOp, fingerprintVars, enumVars, resolverVars>>

ProcessAllFilesFork ==
    \E viaCommand \in BOOLEAN, spawned \in BOOLEAN : processAllFilesFork(viaCommand, spawned)

\* processSavedFile: no lock check; save the cache to the settings, fork for
\* the one file
processSavedFile(fsPath, cachingEnabled, parse_copybooks_for_references, spawned) ==
        LET saved == saveGlobalCacheToWorkspace(InMemoryGlobalSymbolCache, settings,
                                                workspaceStore, FALSE)
            sf == ScanData(<<fsPath>>, 0, settings.cache_metadata_show_progress_messages,
                           saved.settings)
        IN  /\ NumWorkers + NumPending < MaxWorkers
            /\ IF cachingEnabled /\ ~parse_copybooks_for_references
               THEN /\ settings' = saved.settings
                    /\ workspaceStore' = saved.store
                    /\ forkScanner(saved.cache, sf, spawned)
               ELSE /\ spawned
                    /\ lastExit' = NoOp
                    /\ UNCHANGED <<settings, workspaceStore, jsonFiles, workers, activePid,
                                   InMemoryGlobalSymbolCache>>
            /\ lastRequest' = [op |-> "processSavedFile",
                               forked |-> cachingEnabled /\ ~parse_copybooks_for_references]
            /\ lastMessage' = NoOp
            /\ UNCHANGED <<cacheDirectory, foreignPids, pendingScans, progressStatusBarItem>>
            /\ UNCHANGED <<lastOp, fingerprintVars, enumVars, resolverVars>>

ProcessSavedFile ==
    \E fsPath \in DOMAIN fsMtime, cachingEnabled \in BOOLEAN,
       parse_copybooks_for_references \in BOOLEAN, spawned \in BOOLEAN :
        processSavedFile(fsPath, cachingEnabled, parse_copybooks_for_references, spawned)

\* what a message meets in the cache: a record of its file, entry points of
\* its file, its copybook key, the dirty flag, the percentage of the previous
\* update
MessageMet(cache, prevPercent, msg) ==
    [prevPercent |-> prevPercent,
     record |-> /\ msg.tag = COBSCANNER_ADDFILE
                /\ msg.filename \in DOMAIN cache.sourceFilenameModified,
     entryPoints |-> /\ msg.tag = COBSCANNER_ADDFILE
                     /\ EntriesOf(cache, "entryPoints", msg.filename) # {},
     copybook |-> /\ msg.tag = COBSCANNER_KNOWNCOPYBOOK
                  /\ <<msg.copybook, getFilenameWithoutPath(msg.filename)>>
                        \in DOMAIN cache.knownCopybooks,
     isDirty |-> cache.isDirty]

\* child.on('message') for the message msg of worker pid, whose channel then
\* holds rest
onMessage(pid, msg, rest) ==
    LET w == workers[pid]
        h == HandleMessage(InMemoryGlobalSymbolCache, progressStatusBarItem,
                           w.prevPercent, msg)
    IN  /\ InMemoryGlobalSymbolCache' = h.cache
        /\ progressStatusBarItem' = h.item
        /\ workers' = [workers EXCEPT ![pid].chan = rest,
                                      ![pid].prevPercent = h.prevPercent]
        /\ lastMessage' = [op |-> "message", msg |-> msg, logged |-> h.log,
                           met |-> MessageMet(InMemoryGlobalSymbolCache, w.prevPercent, msg)]
        /\ lastRequest' = NoOp
        /\ lastExit' = NoOp
        /\ UNCHANGED <<activePid, cacheDirectory, foreignPids, jsonFiles, pendingScans, settings,
                       workspaceStore>>
        /\ UNCHANGED <<lastOp, fingerprintVars, enumVars, resolverVars>>

\* child.on('message'): the coordinator handles the next message of a worker
OnMessage ==
    \E pid \in DOMAIN workers :
        /\ workers[pid].chan # <<>>
        /\ onMessage(pid, Head(workers[pid].chan), Tail(workers[pid].chan))

\* child.on('exit'): the coordinator handles the exit of a worker
OnExit ==
    \E pid \in DOMAIN workers :
        LET w == workers[pid]
            h == ExitHandler(w.exitCode, w.showMessage)
            saved == IF h.save
                     THEN saveGlobalCacheToWorkspace(InMemoryGlobalSymbolCache, settings,
                                                     workspaceStore, TRUE)
                     ELSE [cache |-> InMemoryGlobalSymbolCache, settings |-> settings,
                           store |-> workspaceStore]
        IN  /\ w.exitCode # -1
            /\ ~w.exitHandled
            /\ workers' = [workers EXCEPT ![pid].exitHandled = TRUE]
            /\ activePid' = h.activePid
            /\ progressStatusBarItem' =
                    IF h.hide THEN [progressStatusBarItem EXCEPT !.visible = FALSE]
                    ELSE progressStatusBarItem
            /\ InMemoryGlobalSymbolCache' = saved.cache
            /\ settings' = saved.settings
            /\ workspaceStore' = saved.store
            /\ lastExit' = [op |-> "exit", code |-> w.exitCode,
                            showMessage |-> w.showMessage,
                            wasDirty |-> InMemoryGlobalSymbolCache.isDirty,
                            wasVisible |-> progressStatusBarItem.visible,
                            logged |-> h.log]
            /\ UNCHANGED <<cacheDirectory, foreignPids, jsonFiles, pendingScans>>
            /\ lastRequest' = NoOp
            /\ lastMessage' = NoOp
            /\ UNCHANGED <<lastOp, fingerprintVars, enumVars, resolverVars>>

\* the worker loads the scan request named by its argument; ScanDataHelper.load
\* throws when the file is missing or, with parsed false, is no valid JSON
workerLoad(pid, parsed) ==
        LET w == workers[pid]
        IN  /\ w.exitCode = -1
            /\ w.pc = "start"
            /\ workers' =
                  IF w.jsonArg \in DOMAIN jsonFiles /\ parsed
                  THEN [workers EXCEPT
                          ![pid].pc = "scan",
                          ![pid].scanData = jsonFiles[w.jsonArg],
                          ![pid].sourceFilenameModified =
                              loadFileCacheFromArray(EmptyCache, fsMtime,
                                  jsonFiles[w.jsonArg].metadata.metadata_files,
                                  TRUE).sourceFilenameModified]
                  ELSE [workers EXCEPT ![pid].pc = "cleanup"]
            /\ UNCHANGED <<activePid, cacheDirectory, foreignPids, jsonFiles,
                           pendingScans, settings, workspaceStore, progressStatusBarItem>>
            /\ lastRequest' = NoOp
            /\ lastExit' = NoOp /\ lastMessage' = NoOp
            /\ UNCHANGED <<cacheVars, fingerprintVars, enumVars, resolverVars>>

WorkerLoad == \E pid \in DOMAIN workers : workerLoad(pid, TRUE)

\* mutant: the STATUS message carries the counter that is reset after every send
statusMessageSendCount(fCount, fSendCount, scanData) ==
    StatusMsg(fSendCount, Len(scanData.Files))

\* process.send(`${COBSCANNER_STATUS} ${fCount} ${scanData.Files.length}`)
statusMessage(fCount, fSendCount, scanData) ==
    StatusMsg(fCount, Len(scanData.Files))

\* one iteration of the worker's loop over scanData.Files
WorkerScanFile ==
    \E pid \in DOMAIN workers :
        LET w == workers[pid]
            file == w.scanData.Files[w.fCount + 1]
            sendStatus == w.fSendCount + 1 = SendOn(w.scanData.fileCount)
            status == IF sendStatus
                      THEN <<statusMessage(w.fCount + 1, w.fSendCount + 1, w.scanData)>>
                      ELSE <<>>
            r == cacheUpdateRequired(w.sourceFilenameModified, fsMtime, symFiles,
                                     w.scanData.cacheDirectory, file)
            exists == Normalize(file) \in DOMAIN fsMtime
            scanned == IF ~r.throws /\ r.required /\ exists
                       THEN <<FileMsg(fsMtime[Normalize(file)], file)>> \o ExtractorOutput(file)
                       ELSE <<>>
        IN  /\ w.exitCode = -1
            /\ w.pc = "scan"
            /\ w.fCount < Len(w.scanData.Files)
            /\ workers' = [workers EXCEPT
                    ![pid].fCount = @ + 1,
                    ![pid].fSendCount = IF sendStatus THEN 0 ELSE @ + 1,
                    ![pid].chan = @ \o status \o scanned,
                    ![pid].sent = @ + Len(scanned),
                    ![pid].pc = IF r.throws THEN "cleanup" ELSE "scan"]
            /\ symFiles' = IF ~r.throws /\ r.required /\ exists
                            THEN MapSet(symFiles,
                                        SymFileFor(w.scanData.cacheDirectory, Normalize(file)),
                                        fsMtime[Normalize(file)])
                            ELSE symFiles
            /\ UNCHANGED <<fsMtime, scannerFiles, lastCheck>>
            /\ UNCHANGED <<activePid, cacheDirectory, foreignPids, jsonFiles,
                           pendingScans, settings, workspaceStore, progressStatusBarItem>>
            /\ lastRequest' = NoOp
            /\ lastExit' = NoOp /\ lastMessage' = NoOp
            /\ UNCHANGED <<cacheVars, enumVars, resolverVars>>

\* mutant: the request file is unlinked only when the loop ran to its end
unlinkLastJsonFileOnSuccess(files, w) ==
    IF w.pc = "scan" THEN MapDelete(files, w.jsonArg) ELSE files

\* the end of the script: fs.unlinkSync(lastJsonFile), errors ignored
unlinkLastJsonFile(files, w) == MapDelete(files, w.jsonArg)

\* the end of the script: unlink the request file, exit with code 0
WorkerFinish ==
    \E pid \in DOMAIN workers :
        LET w == workers[pid]
        IN  /\ w.exitCode = -1
            /\ \/ w.pc = "cleanup"
               \/ w.pc = "scan" /\ w.fCount = Len(w.scanData.Files)
            /\ jsonFiles' = unlinkLastJsonFile(jsonFiles, w)
            /\ workers' = [workers EXCEPT ![pid] = Ended(w, 0)]
            /\ UNCHANGED <<activePid, cacheDirectory, foreignPids, pendingScans,
                           settings, workspaceStore, progressStatusBarItem>>
            /\ lastRequest' = NoOp
            /\ lastExit' = [op |-> "finish", caught |-> w.pc = "cleanup",
                            examined |-> w.fCount, listed |-> Len(w.scanData.Files),
                            jsonArg |-> w.jsonArg]
            /\ lastMessage' = NoOp
            /\ UNCHANGED <<cacheVars, fingerprintVars, enumVars, resolverVars>>

\* the worker process dies (killed, crashed): non-zero code, nothing cleaned up
WorkerCrash ==
    \E pid \in DOMAIN workers :
        /\ workers[pid].exitCode = -1
        /\ workers' = [workers EXCEPT ![pid] = Ended(@, 1)]
        /\ UNCHANGED <<activePid, cacheDirectory, foreignPids, jsonFiles,
                       pendingScans, settings, workspaceStore, progressStatusBarItem>>
        /\ lastRequest' = NoOp
        /\ lastExit' = NoOp /\ lastMessage' = NoOp
        /\ UNCHANGED <<cacheVars, fingerprintVars, enumVars, resolverVars>>

\* a source file of the workspace is edited
EditFile ==
    \E f \in DOMAIN fsMtime :
        /\ fsMtime[f] < MaxMtime
        /\ fsMtime' = [fsMtime EXCEPT ![f] = @ + 1]
        /\ lastRequest' = NoOp
        /\ lastExit' = NoOp /\ lastMessage' = NoOp
        /\ UNCHANGED <<symFiles, scannerFiles, lastCheck>>
        /\ UNCHANGED <<activePid, cacheDirectory, foreignPids, jsonFiles, pendingScans, workers,
                       settings, workspaceStore, progressStatusBarItem>>
        /\ UNCHANGED <<cacheVars, enumVars, resolverVars>>

\* a source file of the workspace vanishes while a worker runs
DeleteFile ==
    \E f \in DOMAIN fsMtime :
        /\ LiveWorkers # {}
        /\ fsMtime' = MapDelete(fsMtime, f)
        /\ lastRequest' = NoOp
        /\ lastExit' = NoOp /\ lastMessage' = NoOp
        /\ UNCHANGED <<symFiles, scannerFiles, lastCheck>>
        /\ UNCHANGED <<activePid, cacheDirectory, foreignPids, jsonFiles, pendingScans, workers,
                       settings, workspaceStore, progressStatusBarItem>>
        /\ UNCHANGED <<cacheVars, enumVars, resolverVars>>

----------------------------------------------------------------------------
(* Spec: the coordinator and its workers on a workspace *)

\* a session on a workspace of one copybook, whose artifact an earlier
\* session left in the cache directory, stale (0) or up to date (1)
Init ==
    /\ IdleCache
    /\ fsMtime = [f \in {<<"ws", "B.cpy">>} |-> 1]
    /\ symFiles \in [{SymFileFor(CacheDir, <<"ws", "B.cpy">>)} -> {0, 1}]
    /\ scannerFiles = EmptyMap
    /\ lastCheck = NoOp
    /\ IdleEnum
    /\ IdleResolver
    /\ activePid = 0
    /\ cacheDirectory \in {CacheDir, TempDir}
    /\ foreignPids = {}
    /\ jsonFiles = EmptyMap
    /\ pendingScans = [viaCommand \in BOOLEAN |-> 0]
    /\ workers = EmptyMap
    /\ settings = EmptyMetadata
    /\ workspaceStore = EmptyMetadata
    /\ progressStatusBarItem = [visible |-> FALSE, text |-> -1]
    /\ lastRequest = NoOp
    /\ lastExit = NoOp
    /\ lastMessage = NoOp

Next ==
    \/ ProcessAllFilesBegin
    \/ ProcessAllFilesFork
    \/ ProcessSavedFile
    \/ OnMessage
    \/ OnExit
    \/ WorkerLoad
    \/ WorkerScanFile
    \/ WorkerFinish
    \/ WorkerCrash

Spec == Init /\ [][Next]_vars

\* C4 (at most one worker), as claimed: under any interleaving of startup,
\* on-demand and on-save scans, no worker is forked while a previously forked
\* worker is still alive, so at most one worker is alive in every state.
AtMostOneWorker == Cardinality(LiveWorkers) <= 1

----------------------------------------------------------------------------
(* SpecPipe: scan cycles one after the other on the workspace of A.cbl and
   B.cpy; a request is made only when the previous cycle has ended and all of
   its messages and its exit were handled; files are edited between cycles *)

\* every forked worker has ended and nothing of it is left to handle
Quiescent ==
    /\ NumPending = 0
    /\ \A pid \in DOMAIN workers :
            /\ workers[pid].exitCode # -1
            /\ workers[pid].exitHandled
            /\ workers[pid].chan = <<>>

\* an on-demand scan of the workspace, caching enabled
PipeProcessAllFiles ==
    Quiescent /\ processAllFilesInWorkspaceOutOfProcess(TRUE, TRUE, TRUE)

\* a file is saved, caching enabled, copybooks not parsed for references
PipeProcessSavedFile ==
    Quiescent /\ \E fsPath \in DOMAIN fsMtime : processSavedFile(fsPath, TRUE, FALSE, TRUE)

\* the scan forks when the directories are enumerated; the child is spawned
PipeProcessAllFilesFork == \E viaCommand \in BOOLEAN : processAllFilesFork(viaCommand, TRUE)

PipeEditFile == Quiescent /\ EditFile

\* nothing scanned yet; the progress item may have been left visible by an
\* earlier scan of a large workspace that ended with a non-zero code
InitPipe ==
    /\ IdleCache
    /\ fsMtime = [f \in WsFiles |-> 1]
    /\ symFiles = EmptyMap
    /\ scannerFiles = EmptyMap
    /\ lastCheck = NoOp
    /\ IdleEnum
    /\ IdleResolver
    /\ activePid = 0
    /\ cacheDirectory = CacheDir
    /\ foreignPids = {}
    /\ jsonFiles = EmptyMap
    /\ pendingScans = [viaCommand \in BOOLEAN |-> 0]
    /\ workers = EmptyMap
    /\ settings \in {[EmptyMetadata EXCEPT !.cache_metadata_show_progress_messages = b] :
                        b \in BOOLEAN}
    /\ workspaceStore = EmptyMetadata
    /\ progressStatusBarItem \in {[visible |-> b, text |-> -1] : b \in BOOLEAN}
    /\ lastRequest = NoOp
    /\ lastExit = NoOp
    /\ lastMessage = NoOp

NextPipe ==
    \/ PipeProcessAllFiles
    \/ PipeProcessAllFilesFork
    \/ PipeProcessSavedFile
    \/ OnMessage
    \/ OnExit
    \/ WorkerLoad
    \/ WorkerScanFile
    \/ WorkerFinish
    \/ WorkerCrash
    \/ PipeEditFile

SpecPipe == InitPipe /\ [][NextPipe]_vars

\* the five mappings of the SymbolTable
SymbolTable(cache) == [field \in SymbolMaps |-> cache[field]]

\* the scan of the running worker pid is a second scan with no file modified:
\* for every file of its request, the request carries the record an earlier
\* cycle left in the cache, made at the file's current modification time
Rescan(pid) ==
    LET w == workers[pid]
    IN  /\ w.exitCode = -1
        /\ w.pc # "start"
        /\ \A i \in 1..Len(w.scanData.Files) :
                LET f == Normalize(w.scanData.Files[i])
                IN  /\ f \in DOMAIN fsMtime
                    /\ <<fsMtime[f], getShortWorkspaceFilename(f)>>
                            \in w.scanData.metadata.metadata_files

\* nothing of worker pid is left to handle
Settled(pid) ==
    /\ workers[pid].exitCode # -1
    /\ workers[pid].exitHandled
    /\ workers[pid].chan = <<>>

\* C7 (scan idempotence): in a scan cycle over files that an earlier cycle
\* recorded in the cache and that were not modified since, the worker emits no
\* message for any file, and while only such a cycle is under way no step
\* changes the coordinator's SymbolTable.
ScanIdempotence ==
    /\ [](\A pid \in DOMAIN workers :
            Rescan(pid) => (workers[pid].sent = 0 /\ workers[pid].chan = <<>>))
    /\ [][(\A pid \in DOMAIN workers : Settled(pid) \/ Rescan(pid))
            => SymbolTable(InMemoryGlobalSymbolCache') = SymbolTable(InMemoryGlobalSymbolCache)]_vars

\* the worker of the second cycle has gone over both files, unmodified, and
\* the SymbolTable holds what the first cycle found
ScanIdempotenceWitness ==
    /\ DOMAIN workers = {1, 2}
    /\ Settled(1)
    /\ Rescan(2)
    /\ Len(workers[2].scanData.Files) = 2
    /\ workers[2].fCount = 2
    /\ workers[2].sent = 0
    /\ "alpha" \in DOMAIN InMemoryGlobalSymbolCache.callableSymbols
    /\ "alpha-entry" \in DOMAIN InMemoryGlobalSymbolCache.entryPoints

\* C9 (persist on every exit): whenever the exit of a worker is handled, with
\* code 0 or not, the cache as the messages applied so far left it is saved to
\* the workspace store (written when the cache is dirty, which the save
\* clears); on code 0 the progress item is hidden.
PersistOnEveryExit ==
    [][\A pid \in DOMAIN workers :
        (~workers[pid].exitHandled /\ workers'[pid].exitHandled)
        => /\ IF InMemoryGlobalSymbolCache.isDirty
              THEN /\ workspaceStore' = MetadataOf(InMemoryGlobalSymbolCache, settings)
                   /\ settings' = workspaceStore'
                   /\ ~InMemoryGlobalSymbolCache'.isDirty
              ELSE workspaceStore' = workspaceStore
           /\ SymbolTable(InMemoryGlobalSymbolCache') = SymbolTable(InMemoryGlobalSymbolCache)
           /\ workers[pid].exitCode = 0 => ~progressStatusBarItem'.visible]_vars

\* a worker ended with a non-zero code while the cache was dirty, and the
\* workspace store holds the file records of the cache
PersistOnEveryExitWitness ==
    /\ lastExit.op = "exit"
    /\ lastExit.code # 0
    /\ lastExit.wasDirty
    /\ workspaceStore.metadata_files # {}
    /\ workspaceStore = MetadataOf(InMemoryGlobalSymbolCache, settings)

----------------------------------------------------------------------------
(* SpecOrder: the messages of one scan cycle over A.cbl and B.cpy, handled by
   the coordinator in any order *)

\* what the worker sends in one cycle that scans both files
CycleMessages ==
    <<FileMsg(1, <<"ws", "A.cbl">>)>> \o ExtractorOutput(<<"ws", "A.cbl">>)
        \o <<FileMsg(1, <<"ws", "B.cpy">>)>> \o ExtractorOutput(<<"ws", "B.cpy">>)

\* the cache of a session that has not scanned A.cbl, or that scanned an
\* older A.cbl: with the entry point OLD-ENTRY, with the program BETA, or with
\* ALPHA at line 10
PriorCaches ==
    {[c EXCEPT !.isDirty = FALSE] :
        c \in {EmptyCache,
               addEntryPoint(EmptyCache, <<"ws", "A.cbl">>, "OLD-ENTRY", 10),
               addSymbol(EmptyCache, <<"ws", "A.cbl">>, "BETA", 1),
               addSymbol(EmptyCache, <<"ws", "A.cbl">>, "ALPHA", 10)}}

InitOrder ==
    /\ InMemoryGlobalSymbolCache \in PriorCaches
    /\ lastOp = [op |-> "cycle", order |-> <<>>]
    /\ IdleFingerprint
    /\ IdleEnum
    /\ IdleResolver
    /\ IdleScanner

\* the coordinator handles one of the messages not handled yet
DeliverAnyOrder ==
    \E i \in 1..Len(CycleMessages) :
        /\ \A j \in 1..Len(lastOp.order) : lastOp.order[j] # i
        /\ InMemoryGlobalSymbolCache' = ApplyMessage(InMemoryGlobalSymbolCache, CycleMessages[i])
        /\ lastOp' = [lastOp EXCEPT !.order = Append(@, i)]
        /\ UNCHANGED notCacheVars

NextOrder == DeliverAnyOrder

SpecOrder == InitOrder /\ [][NextOrder]_vars

\* every message of the cycle was handled
AllApplied == lastOp.op = "cycle" /\ Len(lastOp.order) = Len(CycleMessages)

\* the position at which message i was handled
AppliedAt(i) == CHOOSE j \in 1..Len(lastOp.order) : lastOp.order[j] = i

\* the result the scenario asks for
ScenarioResult ==
    /\ "alpha" \in DOMAIN InMemoryGlobalSymbolCache.callableSymbols
    /\ InMemoryGlobalSymbolCache.callableSymbols["alpha"] = <<COBOLFileSymbol(<<"A.cbl">>, 1)>>
    /\ "alpha-entry" \in DOMAIN InMemoryGlobalSymbolCache.entryPoints
    /\ InMemoryGlobalSymbolCache.entryPoints["alpha-entry"] = <<COBOLFileSymbol(<<"A.cbl">>, 10)>>
    /\ <<"ws", "A.cbl">> \in DOMAIN InMemoryGlobalSymbolCache.sourceFilenameModified

\* C8 (scenario), as claimed: after all messages of the cycle were handled the
\* result holds, whatever order they were handled in.
ScenarioAnyOrder == AllApplied => ScenarioResult

\* C8 (scenario), amended: after all messages of the cycle were handled, the
\* result holds when the SEND_ENTRYPOINT of A.cbl was handled after the
\* ADD_FILE and the SEND_PROGRAM_ID of A.cbl, as the worker sends them.
ScenarioInOrder ==
    (AllApplied /\ AppliedAt(3) > AppliedAt(1) /\ AppliedAt(3) > AppliedAt(2))
    => ScenarioResult

\* the whole cycle handled in the order sent, on a cache that held OLD-ENTRY
ScenarioInOrderWitness ==
    /\ AllApplied
    /\ lastOp.order = <<1, 2, 3, 4>>
    /\ "old-entry" \notin DOMAIN InMemoryGlobalSymbolCache.entryPoints
    /\ ScenarioResult

----------------------------------------------------------------------------
(* Spawn failure (Spec) *)

\* C11 (spawn failure): when the child cannot be spawned, the error handler
\* leaves no scan request file in the temporary directory, logs the failure
\* and leaves the cache as forkScanner was given it; after it the scanner does
\* not count as active, so a later request can start a scan.
SpawnFailure ==
    lastExit.op = "error"
    => /\ JsonFile(TempDir) \notin DOMAIN jsonFiles
       /\ lastExit.logged # {}
       /\ InMemoryGlobalSymbolCache = lastExit.cache
       /\ ~IsScannerActive(cacheDirectory)

\* after a spawn failure an on-demand request, which checks the lock of the
\* temporary directory, went ahead
SpawnFailureWitness ==
    /\ activePid = UndefinedPid
    /\ cacheDirectory = TempDir
    /\ foreignPids = {}
    /\ lastRequest.op = "processAllFiles"
    /\ lastRequest.viaCommand
    /\ lastRequest.checked
    /\ lastRequest.proceeded

----------------------------------------------------------------------------
(* SpecDirty: the operations of the helper on a cache that was flushed *)

\* the cache after a scan of A.cbl was flushed: the program ALPHA, its entry
\* point, the reference of A.cbl to the copybook B; the dirty flag is clear
FlushedCache ==
    [addReferencedCopybook(
        addEntryPoint(addSymbol(EmptyCache, <<"ws", "sub", "A.cbl">>, "ALPHA", 1),
                      <<"ws", "sub", "A.cbl">>, "ALPHA-ENTRY", 10),
        "B", <<"ws", "sub", "A.cbl">>)
        EXCEPT !.isDirty = FALSE]

InitDirty ==
    /\ InMemoryGlobalSymbolCache \in {EmptyCache, FlushedCache}
    /\ lastOp = NoOp
    /\ IdleFingerprint
    /\ IdleEnum
    /\ IdleResolver
    /\ IdleScanner

\* a program symbol or an entry point is added
CallAddProgramOrEntryPoint ==
    \E field \in {"callableSymbols", "entryPoints"}, name \in RawNames,
       line \in LineNumbers, f \in MsgFiles :
        LET next == AddOperation(InMemoryGlobalSymbolCache, field, f, name, line)
        IN  /\ TotalEntries(next) <= MaxEntries
            /\ InMemoryGlobalSymbolCache' = next
            /\ lastOp' = [op |-> "addOperation", field |-> field,
                          filename |-> getFilenameWithoutPath(f)]
            /\ UNCHANGED notCacheVars

CallAddReferencedCopybook ==
    \E f \in MsgFiles :
        /\ InMemoryGlobalSymbolCache' = addReferencedCopybook(InMemoryGlobalSymbolCache, "B", f)
        /\ lastOp' = [op |-> "addReferencedCopybook", filename |-> getFilenameWithoutPath(f)]
        /\ UNCHANGED notCacheVars

CallRemoveAllCopybookReferences ==
    \E f \in MsgFiles :
        /\ InMemoryGlobalSymbolCache' = removeAllCopybookReferences(InMemoryGlobalSymbolCache, f)
        /\ lastOp' = [op |-> "removeAllCopybookReferences",
                      filename |-> getFilenameWithoutPath(f)]
        /\ UNCHANGED notCacheVars

NextDirty ==
    \/ CallAddProgramOrEntryPoint
    \/ CallRemoveAllPrograms
    \/ CallRemoveAllProgramEntryPoints
    \/ CallRemoveAllTypes
    \/ CallAddReferencedCopybook
    \/ CallRemoveAllCopybookReferences

SpecDirty == InitDirty /\ [][NextDirty]_vars

\* C26 (dirty flag covers every mutation), as claimed: after every operation
\* that changes the content of the SymbolTable or of KnownCopybooks, an add, an
\* in-place update or a removal, the dirty flag is true.
DirtyCoversMutation ==
    [][(\/ SymbolTable(InMemoryGlobalSymbolCache') # SymbolTable(InMemoryGlobalSymbolCache)
        \/ InMemoryGlobalSymbolCache'.knownCopybooks # InMemoryGlobalSymbolCache.knownCopybooks)
       => InMemoryGlobalSymbolCache'.isDirty]_vars

----------------------------------------------------------------------------
(* SpecWorker: one worker process (cobscanner main) on the scan request it was
   forked for, while files of the workspace vanish *)

\* the records a request carries: of any of the files, made at their
\* modification time
RequestRecords == SUBSET {<<1, getShortWorkspaceFilename(f)>> : f \in WsFiles}

\* the requests forkScanner saves: for all files of the workspace, or for one
\* saved file (fileCount 0)
Requests ==
    {ScanData(SeqOfFiles(WsFiles), Cardinality(WsFiles), showMessage,
              [EmptyMetadata EXCEPT !.metadata_files = records]) :
        showMessage \in BOOLEAN, records \in RequestRecords}
    \cup {ScanData(<<f>>, 0, showMessage,
                   [EmptyMetadata EXCEPT !.metadata_files = records]) :
            f \in WsFiles, showMessage \in {FALSE}, records \in RequestRecords}

\* the worker was forked for a request; artifacts of an earlier session may
\* lie in the cache directory
InitWorker ==
    /\ IdleCache
    /\ fsMtime = [f \in WsFiles |-> 1]
    /\ \E S \in SUBSET WsFiles : symFiles = [fn \in {SymFileFor(CacheDir, f) : f \in S} |-> 1]
    /\ scannerFiles = EmptyMap
    /\ lastCheck = NoOp
    /\ IdleEnum
    /\ IdleResolver
    /\ activePid = 1
    /\ cacheDirectory = CacheDir
    /\ foreignPids = {}
    /\ \E sf \in Requests :
            /\ jsonFiles = [j \in {JsonFile(TempDir)} |-> sf]
            /\ workers = [pid \in {1} |-> NewWorker(sf.showMessage)]
    /\ pendingScans = [viaCommand \in BOOLEAN |-> 0]
    /\ settings = EmptyMetadata
    /\ workspaceStore = EmptyMetadata
    /\ progressStatusBarItem = [visible |-> FALSE, text |-> -1]
    /\ lastRequest = NoOp
    /\ lastExit = NoOp
    /\ lastMessage = NoOp

\* the worker loads its request, which may fail to parse
WorkerLoadRequest == \E parsed \in BOOLEAN : workerLoad(1, parsed)

NextWorker ==
    \/ WorkerLoadRequest
    \/ WorkerScanFile
    \/ WorkerFinish
    \/ WorkerCrash
    \/ DeleteFile

SpecWorker == InitWorker /\ [][NextWorker]_vars

\* C12 (unconditional envelope cleanup): when the worker script ends (exit
\* code 0), after a completed loop, a request that failed to load or an error
\* part-way through the file list, the request file it was given does not exist.
EnvelopeCleanup ==
    [][\A pid \in DOMAIN workers :
            (workers[pid].exitCode = -1 /\ workers'[pid].exitCode = 0)
            => workers[pid].jsonArg \notin DOMAIN jsonFiles']_vars

\* the script ended after an error at the first of two files, and the request
\* file is gone
EnvelopeCleanupWitness ==
    /\ lastExit.op = "finish"
    /\ lastExit.caught
    /\ lastExit.examined = 1
    /\ lastExit.listed = 2
    /\ lastExit.jsonArg \notin DOMAIN jsonFiles
    /\ workers[1].exitCode = 0

\* C13 (vanished file), as claimed: a failure to stat a file of the list is
\* caught for that file, so a worker that leaves its loop has examined every
\* file of its list.
VanishedFileSkipped ==
    \A pid \in DOMAIN workers :
        (workers[pid].exitCode = -1 /\ workers[pid].pc = "cleanup")
        => workers[pid].fCount = Len(workers[pid].scanData.Files)

\* the messages a worker has sent that carry the tag
SentWithTag(pid, tag) == {i \in DOMAIN workers[pid].chan : workers[pid].chan[i].tag = tag}

\* C14 (periodic progress), as claimed: a worker that has examined every file
\* of a list of N >= 1 files has sent a STATUS message, also for fewer than 20
\* files and for the one file of an on-save scan.
ProgressDuringEveryScan ==
    \A pid \in DOMAIN workers :
        LET w == workers[pid]
        IN  (/\ w.exitCode = -1
             /\ w.pc = "scan"
             /\ Len(w.scanData.Files) >= 1
             /\ w.fCount = Len(w.scanData.Files))
            => SentWithTag(pid, COBSCANNER_STATUS) # {}

----------------------------------------------------------------------------
(* SpecHandler: the message handler of one forked worker, on messages of every
   kind but the symbol messages, and the loader of the known copybooks *)

\* STATUS messages: 33%, 66%, 100% of three files and 0% of two hundred
StatusMsgs == {StatusMsg(ct[1], ct[2]) : ct \in {<<1, 3>>, <<2, 3>>, <<3, 3>>, <<1, 200>>}}

\* ADD_FILE messages: files of the workspace, and one outside it
AddFileMsgs == {FileMsg(ms, f) : ms \in 1..MaxMtime, f \in MsgFiles \cup {<<"tmp", "A.cbl">>}}

CopybookMsgs == {CopybookMsg("B", f) : f \in MsgFiles}

\* a control message of a tag the handler does not know
UnknownTagMsgs == {[tag |-> "SEND_FUTURE", text |-> "@@SEND_FUTURE,x,1,A.cbl"]}

PlainMsgs == {PlainMsg("  Parse completed: A.cbl"), PlainMsg("Scan completed")}

\* the items of a metadata_knowncopybooks array: "copybook,file", and one
\* item without a comma
CopybookItems == {<<"B", <<"A.cbl">>>>, <<"B", <<"B.cpy">>>>, <<"B">>}

\* the cache as an earlier scan of A.cbl left it: its record and its entry point
ScannedCache ==
    [addEntryPoint(addFilename(EmptyCache, <<"ws", "sub", "A.cbl">>,
                               COBOLWorkspaceFile(1, <<"sub", "A.cbl">>)),
                   <<"ws", "sub", "A.cbl">>, "OLD-ENTRY", 10)
        EXCEPT !.isDirty = FALSE]

\* one worker is running; the cache holds nothing, or an earlier scan of A.cbl
InitHandler ==
    /\ InMemoryGlobalSymbolCache \in {EmptyCache, ScannedCache}
    /\ lastOp = NoOp
    /\ IdleFingerprint
    /\ IdleEnum
    /\ IdleResolver
    /\ activePid = 1
    /\ cacheDirectory = CacheDir
    /\ foreignPids = {}
    /\ jsonFiles = EmptyMap
    /\ pendingScans = [viaCommand \in BOOLEAN |-> 0]
    /\ workers = [pid \in {1} |-> [NewWorker(FALSE) EXCEPT !.pc = "scan"]]
    /\ settings = EmptyMetadata
    /\ workspaceStore = EmptyMetadata
    /\ progressStatusBarItem = [visible |-> FALSE, text |-> -1]
    /\ lastRequest = NoOp
    /\ lastExit = NoOp
    /\ lastMessage = NoOp

ReceiveStatus == \E msg \in StatusMsgs : onMessage(1, msg, <<>>)

ReceiveAddFile == \E msg \in AddFileMsgs : onMessage(1, msg, <<>>)

ReceiveKnownCopybook == \E msg \in CopybookMsgs : onMessage(1, msg, <<>>)

ReceiveUnknownTag == \E msg \in UnknownTagMsgs : onMessage(1, msg, <<>>)

ReceivePlainLine == \E msg \in PlainMsgs : onMessage(1, msg, <<>>)

\* the known copybooks are loaded from a metadata array
LoadKnownCopybooks ==
    \E copybookValues \in SUBSET CopybookItems, clear \in BOOLEAN :
        /\ InMemoryGlobalSymbolCache' =
                loadGlobalKnownCopybooksFromArray(InMemoryGlobalSymbolCache,
                                                  copybookValues, clear)
        /\ lastMessage' = NoOp
        /\ UNCHANGED <<lastOp, fingerprintVars, enumVars, resolverVars>>
        /\ UNCHANGED <<activePid, cacheDirectory, foreignPids, jsonFiles, pendingScans, workers, settings,
                       workspaceStore, progressStatusBarItem, lastRequest, lastExit>>

NextHandler ==
    \/ ReceiveStatus
    \/ ReceiveAddFile
    \/ ReceiveKnownCopybook
    \/ ReceiveUnknownTag
    \/ ReceivePlainLine
    \/ LoadKnownCopybooks

SpecHandler == InitHandler /\ [][NextHandler]_vars

\* the step handles a message of the given tag
Handles(tag) == lastMessage'.op = "message" /\ lastMessage'.msg.tag = tag

\* C15 (progress de-duplication): handling a STATUS message writes the
\* progress text exactly when its integer percentage differs from the
\* percentage of the previous update (0 before the first), and leaves the text
\* as it is when the percentage is equal.
ProgressDeduplication ==
    [][Handles(COBSCANNER_STATUS)
        => LET msg == lastMessage'.msg
               percent == (msg.current * 100) \div msg.total
           IN  /\ progressStatusBarItem'.visible
               /\ workers'[1].prevPercent = percent
               /\ progressStatusBarItem'.text =
                     IF workers[1].prevPercent # percent THEN percent
                     ELSE progressStatusBarItem.text]_vars

\* a STATUS message of 1 file of 3 was handled after an update to 33%
ProgressDeduplicationWitness ==
    /\ lastMessage.op = "message"
    /\ lastMessage.msg = StatusMsg(1, 3)
    /\ lastMessage.met.prevPercent = 33
    /\ workers[1].prevPercent = 33
    /\ progressStatusBarItem.visible
    /\ progressStatusBarItem.text = 33

\* C16 (ADD_FILE effect): after ADD_FILE(ms, fullPath) for a path inside the
\* workspace, sourceFilenameModified holds for fullPath the one record with the
\* new time and the short name, the records of other paths are as before, and
\* entryPoints holds no entry of the file.
AddFileEffect ==
    [][(Handles(COBSCANNER_ADDFILE)
            /\ getShortWorkspaceFilename(lastMessage'.msg.filename) # Undefined)
        => LET msg == lastMessage'.msg
               short == getShortWorkspaceFilename(msg.filename)
           IN  /\ InMemoryGlobalSymbolCache'.sourceFilenameModified =
                     MapSet(InMemoryGlobalSymbolCache.sourceFilenameModified,
                            msg.filename, COBOLWorkspaceFile(msg.ms, short))
               /\ EntriesOf(InMemoryGlobalSymbolCache', "entryPoints", short) = {}]_vars

\* an ADD_FILE replaced an older record of the file and removed its entry points
AddFileEffectWitness ==
    /\ lastMessage.op = "message"
    /\ lastMessage.msg.tag = COBSCANNER_ADDFILE
    /\ lastMessage.met.record
    /\ lastMessage.met.entryPoints
    /\ lastMessage.msg.ms = 2
    /\ InMemoryGlobalSymbolCache.sourceFilenameModified[lastMessage.msg.filename].lastModifiedTime = 2
    /\ InMemoryGlobalSymbolCache.entryPoints = EmptyMap

\* C17 (KNOWN_COPYBOOK): handling KNOWN_COPYBOOK(copybook, file) adds the
\* composite key with the copybook as its value and marks the cache dirty when
\* the key is absent; when the key is present, knownCopybooks and the dirty
\* flag stay as they are.
KnownCopybookInsertIfNew ==
    [][Handles(COBSCANNER_KNOWNCOPYBOOK)
        => LET msg == lastMessage'.msg
               key == <<msg.copybook, getFilenameWithoutPath(msg.filename)>>
               old == InMemoryGlobalSymbolCache
           IN  IF key \in DOMAIN old.knownCopybooks
               THEN /\ InMemoryGlobalSymbolCache'.knownCopybooks = old.knownCopybooks
                    /\ InMemoryGlobalSymbolCache'.isDirty = old.isDirty
               ELSE /\ InMemoryGlobalSymbolCache'.knownCopybooks =
                            MapSet(old.knownCopybooks, key, msg.copybook)
                    /\ InMemoryGlobalSymbolCache'.isDirty]_vars

\* a KNOWN_COPYBOOK whose key was present was handled on a clean cache
KnownCopybookInsertIfNewWitness ==
    /\ lastMessage.op = "message"
    /\ lastMessage.msg.tag = COBSCANNER_KNOWNCOPYBOOK
    /\ lastMessage.met.copybook
    /\ ~lastMessage.met.isDirty
    /\ ~InMemoryGlobalSymbolCache.isDirty

\* C18 (KnownCopybooks value), as claimed: in every cache state each entry of
\* knownCopybooks, added by addReferencedCopybook or loaded by
\* loadGlobalKnownCopybooksFromArray, maps its key "copybook,file" to the
\* copybook.
KnownCopybooksValue ==
    \A key \in DOMAIN InMemoryGlobalSymbolCache.knownCopybooks :
        InMemoryGlobalSymbolCache.knownCopybooks[key] = key[1]

\* C19 (unknown tag), as claimed: a message that starts with the sentinel and
\* carries no known tag is forwarded to the log as a plain line, and the cache
\* stays as it is.
UnknownTagLogged ==
    (lastMessage.op = "message" /\ lastMessage.msg \in UnknownTagMsgs)
    => lastMessage.logged = {lastMessage.msg.text}

\* C20 (plain log lines): a message that does not start with the sentinel is
\* logged verbatim, and the cache (symbol maps, knownCopybooks, file records,
\* dirty flag) and the progress item stay as they are.
PlainLineForwarded ==
    [][(lastMessage'.op = "message" /\ ~startsWithSentinel(lastMessage'.msg))
        => /\ lastMessage'.logged = {lastMessage'.msg.text}
           /\ InMemoryGlobalSymbolCache' = InMemoryGlobalSymbolCache
           /\ progressStatusBarItem' = progressStatusBarItem
           /\ workers'[1].prevPercent = workers[1].prevPercent]_vars

\* a plain line was logged while the cache was dirty and the progress visible
PlainLineForwardedWitness ==
    /\ lastMessage.op = "message"
    /\ lastMessage.msg = PlainMsg("Scan completed")
    /\ lastMessage.logged = {"Scan completed"}
    /\ InMemoryGlobalSymbolCache.isDirty
    /\ progressStatusBarItem.visible
    /\ DOMAIN InMemoryGlobalSymbolCache.sourceFilenameModified # {}

\* C32 (envelope before worker): whenever a step forks a worker, the scan
\* request file the worker is given as its argument exists when the worker
\* starts and holds a request with the showMessage the handlers of this fork
\* were set up with.
EnvelopeBeforeWorker ==
    [][\A pid \in DOMAIN workers' \ DOMAIN workers :
        /\ workers'[pid].pc = "start"
        /\ workers'[pid].jsonArg = JsonFile(TempDir)
        /\ workers'[pid].jsonArg \in DOMAIN jsonFiles'
        /\ jsonFiles'[workers'[pid].jsonArg].showMessage = workers'[pid].showMessage]_vars

\* a second worker has just been forked while the first one still runs: its
\* request is in the temporary directory
EnvelopeBeforeWorkerWitness ==
    /\ DOMAIN workers = {1, 2}
    /\ workers[1].exitCode = -1
    /\ workers[2].pc = "start"
    /\ activePid = 2
    /\ JsonFile(TempDir) \in DOMAIN jsonFiles
    /\ Len(jsonFiles[JsonFile(TempDir)].Files) = 1

\* C34 (PID tracking), as claimed: while a worker forked by the coordinator
\* still runs, activePid is not 0, and activePid is not 0 only while the exit
\* of some forked worker has not been handled; a child that could not be
\* spawned is no such worker.
PidTracking ==
    /\ LiveWorkers # {} => activePid # 0
    /\ activePid # 0 => \E pid \in DOMAIN workers : ~workers[pid].exitHandled

(***************************************************************************)
(* SpecDirs: the directory enumeration of the coordinator                  *)
(* (processAllFilesInWorkspaceOutOfProcess, generateCOBScannerData).       *)
(* A directory is the sequence of its path components; a workspace folder  *)
(* has one component.  readDirectory lists the entries of a directory in   *)
(* a fixed order and throws for a directory that cannot be listed.  The    *)
(* symbolic-link cases of the switch only log and fall through, and are    *)
(* left out.                                                               *)
(***************************************************************************)
\* the largest cache_metadata_max_directory_scan_depth explored
MaxDepthLimit == 2

WsRoot == <<"ws">>
LibRoot == <<"lib">>

\* the directories a workspace can hold, in the order readDirectory lists them
DirOrder ==
    << WsRoot, <<"ws", "d1">>, <<"ws", "d1", "d2">>, <<"ws", "d1", "d2", "d3">>,
       <<"ws", "e1">>, <<"ws", "e1", ".git">>, LibRoot >>

DirUniverse == {DirOrder[i] : i \in DOMAIN DirOrder}

Parent(dir) == SubSeq(dir, 1, Len(dir) - 1)

\* nesting below the workspace folder
Depth(dir) == Len(dir) - 1

\* the directory trees: a workspace folder "ws" with any of the directories
\* below it, and possibly a second workspace folder "lib"
DirTrees ==
    {t \in SUBSET DirUniverse :
        /\ WsRoot \in t
        /\ \A d \in t : Len(d) > 1 => Parent(d) \in t}

\* the workspace folders of a tree
WorkspaceFolders(tree) == IF LibRoot \in tree THEN <<WsRoot, LibRoot>> ELSE <<WsRoot>>

\* the plain files of a directory, as readDirectory lists them
DirFiles(dir) ==
    IF dir[1] = "lib" THEN <<"B.cpy", "cpy">>
    ELSE <<"P.cbl", "notes.txt", "X.old.cbl", "Makefile", "OLD.CBL">>

\* the text of a directory or file name: the sequence of its parts, "." being
\* a part of its own
NameParts(name) ==
    CASE name = "P.cbl" -> <<"P", ".", "cbl">>
      [] name = "B.cpy" -> <<"B", ".", "cpy">>
      [] name = "notes.txt" -> <<"notes", ".", "txt">>
      [] name = "X.old.cbl" -> <<"X", ".", "old", ".", "cbl">>
      [] name = "OLD.CBL" -> <<"OLD", ".", "CBL">>
      [] name = ".git" -> <<".", "git">>
      [] OTHER -> <<name>>

\* folder.fsPath
RECURSIVE fsPath(_)
fsPath(dir) ==
    IF dir = <<>> THEN <<>>
    ELSE fsPath(SubSeq(dir, 1, Len(dir) - 1)) \o <<"/">> \o NameParts(dir[Len(dir)])

\* path.join(folder.fsPath, entry)
fullPath(folder, entry) == fsPath(folder) \o <<"/">> \o NameParts(entry)

\* the settings program_extensions and copybookexts explored
ExtensionSettings ==
    { [program_extensions |-> <<"cbl">>, copybookexts |-> <<"cpy">>],
      [program_extensions |-> <<"cob", "CBL">>, copybookexts |-> <<>>] }

\* filename.lastIndexOf(".")
lastIndexOfDot(filename) ==
    IF \E i \in DOMAIN filename : filename[i] = "."
    THEN (CHOOSE i \in DOMAIN filename :
            /\ filename[i] = "."
            /\ \A j \in (i + 1)..Len(filename) : filename[j] # ".") - 1
    ELSE 0 - 1

\* filename.substr(start)
substr(filename, start) == SubSeq(filename, start + 1, Len(filename))

\* the extension is taken after the first dot
isValidProgramExtensionFirstDot(filename, exts) ==
    LET firstDot == IF \E i \in DOMAIN filename : filename[i] = "."
                    THEN (CHOOSE i \in DOMAIN filename :
                            /\ filename[i] = "."
                            /\ \A j \in 1..(i - 1) : filename[j] # ".") - 1
                    ELSE 0 - 1
        extension == IF firstDot # 0 - 1 THEN substr(filename, 1 + firstDot) ELSE <<>>
    IN  \E extpos \in DOMAIN exts : <<exts[extpos]>> = extension

\* COBOLFileUtils.isValidProgramExtension(filename, settings), exts being
\* settings.program_extensions
isValidProgramExtension(filename, exts) ==
    LET lastDot == lastIndexOfDot(filename)
        extension == IF lastDot # 0 - 1 THEN substr(filename, 1 + lastDot) ELSE <<>>
    IN  \E extpos \in DOMAIN exts : <<exts[extpos]>> = extension

\* COBOLFileUtils.isValidCopybookExtension(filename, settings), exts being
\* settings.copybookexts; without a dot the whole name is compared
isValidCopybookExtension(filename, exts) ==
    LET lastDot == lastIndexOfDot(filename)
        extension == IF lastDot # 0 - 1 THEN substr(filename, 1 + lastDot) ELSE filename
    IN  \E extpos \in DOMAIN exts : <<exts[extpos]>> = extension

\* VSCOBOLSourceScanner.ignoreDirectory: version-control folders are not scanned
ignoreDirectory(entry) == entry = ".git"

\* the entries of type Directory of a folder, in listing order
SubDirectories(tree, folder) ==
    SelectSeq(DirOrder, LAMBDA d : d \in tree /\ Len(d) > 1 /\ Parent(d) = folder)

\* the loop over the entries: the files kept for scanning
KeptFiles(folder) ==
    LET kept == SelectSeq(DirFiles(folder),
                    LAMBDA e : \/ isValidProgramExtension(fullPath(folder, e), wsDirs.program_extensions)
                               \/ isValidCopybookExtension(fullPath(folder, e), wsDirs.copybookexts))
    IN  [i \in DOMAIN kept |-> folder \o <<kept[i]>>]

\* the loop over the entries: dir2scan
Dir2Scan(tree, folder) ==
    SelectSeq(SubDirectories(tree, folder), LAMBDA d : ~ignoreDirectory(d[Len(d)]))

\* the depth test, off by one
mayDescendOffByOne(directoryDepth, limit) == directoryDepth <= limit

\* the depth test before the recursion
mayDescend(directoryDepth, limit) == 1 + directoryDepth <= limit

\* the loop ends with the first directory that cannot be listed
remainingAfterFailureAbort(dir2scan) == <<>>

\* catch { continue; }: the loop goes on with the directories after the one
\* that could not be listed
remainingAfterFailure(dir2scan) == Tail(dir2scan)

\* mutant: no directory counts as scanned before
hasFolderNever(directoriesScannedMap, folder) == FALSE

\* stats.directoriesScannedMap.has(folder.fsPath)
hasFolder(directoriesScannedMap, folder) == folder \in directoriesScannedMap

\* readDirectory throws
readDirectoryThrows(folder) == folder \notin wsDirs.dirs \/ folder \in wsDirs.unreadable

\* generateCOBScannerData from its second statement (readDirectory has listed
\* the folder) up to its first recursive call, or up to its return when it
\* does not recurse; stack is the call stack of the caller
EnterDirectory(folder, stack) ==
    LET counted == [stats EXCEPT !.directoriesScanned = @ + 1]
        kept == KeptFiles(folder)
        dir2scan == Dir2Scan(wsDirs.dirs, folder)
        listed == [counted EXCEPT !.directoriesScannedMap = @ \cup {folder},
                                  !.fileCount = @ + Len(kept),
                                  !.filesIgnored = @ + Len(DirFiles(folder)) - Len(kept)]
    IN  IF hasFolder(stats.directoriesScannedMap, folder)
        THEN /\ stats' = counted
             /\ callStack' = stack
             /\ UNCHANGED <<files2scan, scanLog>>
        ELSE /\ files2scan' = files2scan \o kept
             /\ IF dir2scan = <<>>
                THEN /\ stats' = listed
                     /\ callStack' = stack
                     /\ UNCHANGED scanLog
                ELSE IF mayDescend(stats.directoryDepth, wsDirs.limit)
                THEN /\ stats' = [listed EXCEPT !.directoryDepth = @ + 1]
                     /\ callStack' = Append(stack, [folder |-> folder, dir2scan |-> dir2scan])
                     /\ UNCHANGED scanLog
                ELSE /\ stats' = listed
                     /\ callStack' = stack
                     /\ scanLog' = scanLog \cup {folder}

InitDirs ==
    /\ IdleCache
    /\ IdleFingerprint
    /\ IdleScanner
    /\ IdleResolver
    /\ \E tree \in DirTrees, unreadable \in SUBSET DirUniverse, limit \in 0..MaxDepthLimit,
          exts \in ExtensionSettings :
        /\ unreadable \subseteq tree
        /\ wsDirs = [dirs |-> tree, unreadable |-> unreadable, limit |-> limit,
                     program_extensions |-> exts.program_extensions,
                     copybookexts |-> exts.copybookexts]
        /\ rootsLeft = WorkspaceFolders(tree)
    /\ callStack = <<>>
    /\ stats = NewScanStats
    /\ files2scan = <<>>
    /\ scanLog = {}

\* one round of the loop over the workspace folders
ScanNextRoot ==
    /\ callStack = <<>>
    /\ rootsLeft # <<>>
    /\ IF readDirectoryThrows(Head(rootsLeft))
       THEN /\ rootsLeft' = remainingAfterFailure(rootsLeft)
            /\ UNCHANGED <<callStack, stats, files2scan, scanLog>>
       ELSE /\ rootsLeft' = Tail(rootsLeft)
            /\ EnterDirectory(Head(rootsLeft), <<>>)
    /\ UNCHANGED <<wsDirs, cacheVars, fingerprintVars, scannerVars, resolverVars>>

\* one round of the loop over dir2scan in the innermost call
Descend ==
    /\ callStack # <<>>
    /\ callStack[Len(callStack)].dir2scan # <<>>
    /\ LET top == Len(callStack)
           child == Head(callStack[top].dir2scan)
       IN  IF readDirectoryThrows(child)
           THEN /\ callStack' = [callStack EXCEPT ![top].dir2scan = remainingAfterFailure(@)]
                /\ UNCHANGED <<stats, files2scan, scanLog>>
           ELSE EnterDirectory(child, [callStack EXCEPT ![top].dir2scan = Tail(@)])
    /\ UNCHANGED <<wsDirs, rootsLeft, cacheVars, fingerprintVars, scannerVars, resolverVars>>

\* the innermost call is through with dir2scan and returns
Return ==
    /\ callStack # <<>>
    /\ callStack[Len(callStack)].dir2scan = <<>>
    /\ stats' = [stats EXCEPT
            !.maxDirectoryDepth = IF stats.directoryDepth > @ THEN stats.directoryDepth ELSE @,
            !.directoryDepth = @ - 1]
    /\ callStack' = SubSeq(callStack, 1, Len(callStack) - 1)
    /\ UNCHANGED <<wsDirs, rootsLeft, files2scan, scanLog, cacheVars, fingerprintVars, scannerVars, resolverVars>>

NextDirs ==
    \/ ScanNextRoot
    \/ Descend
    \/ Return

SpecDirs == InitDirs /\ [][NextDirs]_vars

\* the loop over the workspace folders is through
ScanDone == rootsLeft = <<>> /\ callStack = <<>>

\* the directories readDirectory listed
Listed == stats.directoriesScannedMap

\* the greatest depth of a listed directory (0 when none was listed)
DeepestListed ==
    IF Listed = {} THEN 0
    ELSE CHOOSE n \in 0..Len(DirOrder) :
            /\ \E d \in Listed : Depth(d) = n
            /\ \A d \in Listed : Depth(d) <= n

\* the directories of the tree with a directory entry / with one that is not ignored
HasSubDirectories(folder) == SubDirectories(wsDirs.dirs, folder) # <<>>
HasDir2Scan(folder) == Dir2Scan(wsDirs.dirs, folder) # <<>>

\* C21 (directory depth limit), as claimed: no directory deeper than the limit
\* is listed, every directory of the tree at the depth of the limit that has
\* sub-directories is named by a "has not been scanned" diagnostic, and
\* maxDirectoryDepth is at most the limit.
DepthLimitAsStated ==
    /\ \A d \in Listed : Depth(d) <= wsDirs.limit
    /\ ScanDone =>
        \A d \in wsDirs.dirs :
            (Depth(d) = wsDirs.limit /\ HasSubDirectories(d)) => d \in scanLog
    /\ stats.maxDirectoryDepth <= wsDirs.limit

\* C21 (directory depth limit), amended: no directory deeper than the limit is
\* listed; the "has not been scanned" diagnostics name exactly the LISTED
\* directories at the depth of the limit that have a sub-directory that is
\* NOT IGNORED; maxDirectoryDepth is at most the limit.  With limit 2 and four
\* readable levels, levels 0-2 are listed, level 3 is not, and
\* maxDirectoryDepth is 2.
DepthLimit ==
    /\ \A d \in Listed : Depth(d) <= wsDirs.limit
    /\ scanLog = {d \in Listed : Depth(d) = wsDirs.limit /\ HasDir2Scan(d)}
    /\ stats.maxDirectoryDepth <= wsDirs.limit
    /\ (/\ ScanDone
        /\ wsDirs.limit = 2
        /\ wsDirs.unreadable = {}
        /\ <<"ws", "d1", "d2", "d3">> \in wsDirs.dirs)
       => /\ {WsRoot, <<"ws", "d1">>, <<"ws", "d1", "d2">>} \subseteq Listed
          /\ <<"ws", "d1", "d2", "d3">> \notin Listed
          /\ stats.maxDirectoryDepth = 2

\* four levels were scanned with limit 2: the third level was left out and the
\* directory above it was named by the diagnostic
DepthLimitWitness ==
    /\ ScanDone
    /\ wsDirs.limit = 2
    /\ wsDirs.unreadable = {}
    /\ <<"ws", "d1", "d2", "d3">> \in wsDirs.dirs
    /\ <<"ws", "d1", "d2">> \in Listed
    /\ <<"ws", "d1", "d2", "d3">> \notin Listed
    /\ scanLog = {<<"ws", "d1", "d2">>}
    /\ stats.maxDirectoryDepth = 2

\* the files of the candidate list
Candidates == {files2scan[i] : i \in DOMAIN files2scan}

\* a directory of the tree the enumeration can get to: it and the directories
\* above it can be listed and are not ignored, and it is within the depth limit
Reachable(dir) ==
    /\ dir \in wsDirs.dirs
    /\ Depth(dir) <= wsDirs.limit
    /\ \A k \in 1..Len(dir) :
        /\ SubSeq(dir, 1, k) \notin wsDirs.unreadable
        /\ k > 1 => ~ignoreDirectory(dir[k])

\* C22 (unreadable directories are never fatal): a directory that cannot be
\* listed is skipped (it is not among the directories scanned and none of its
\* files is a candidate), and when the loop over the workspace folders is
\* through, every other directory that can be listed, is within the depth
\* limit and is not below a skipped or ignored directory has been enumerated
\* and its matching files are in the candidate list.
UnreadableNotFatal ==
    /\ \A d \in wsDirs.unreadable :
        /\ d \notin Listed
        /\ \A f \in Candidates : SubSeq(f, 1, Len(f) - 1) # d
    /\ ScanDone =>
        \A d \in wsDirs.dirs :
            Reachable(d) =>
                /\ d \in Listed
                /\ \A i \in DOMAIN KeptFiles(d) : KeptFiles(d)[i] \in Candidates

\* listing ws/d1 failed; its sibling ws/e1, listed after it, and the second
\* workspace folder were enumerated all the same
UnreadableNotFatalWitness ==
    /\ ScanDone
    /\ wsDirs.unreadable = {<<"ws", "d1">>}
    /\ {WsRoot, <<"ws", "e1">>, LibRoot} \subseteq Listed
    /\ <<"ws", "e1", "P.cbl">> \in Candidates
    /\ <<"lib", "B.cpy">> \in Candidates
    /\ <<"ws", "d1", "P.cbl">> \notin Candidates

\* C30 (depth counter discipline), as claimed: directoryDepth is never
\* negative, never exceeds the depth limit, and is 0 whenever no call of
\* generateCOBScannerData is active (after the scan of each workspace folder
\* returned), also when listing a nested directory failed; when the
\* enumeration is through, maxDirectoryDepth is the depth of the deepest
\* directory that was listed.
DepthCounterDiscipline ==
    /\ stats.directoryDepth >= 0
    /\ stats.directoryDepth <= wsDirs.limit
    /\ callStack = <<>> => stats.directoryDepth = 0
    /\ ScanDone => stats.maxDirectoryDepth = DeepestListed

(***************************************************************************)
(* SpecResolve: the copybook lookup (COBOLFileUtils.findCopyBook).         *)
(* A string is the sequence of its parts, "." being a part of its own, so  *)
(* that + is \o and indexOf(".") looks for the part ".": MYBOOK.cpy is     *)
(* <<"MYBOOK", ".", "cpy">>.  The empty string is <<>>.                    *)
(***************************************************************************)
CopybookDirs == {"d1", "d2"}

\* path.join(copybookdir, name), for names without "." and ".." segments
pathJoin(copybookdir, name) == copybookdir \o <<"/">> \o name

\* the sub-directories COPY ... IN names
ScopeDirectories == {"sub", "other"}

\* the names a plain file of a copybook directory can have
CopybookFileNames(copybookdir) ==
    {<<"MYBOOK">>, <<"MYBOOK", ".", "cpy">>} \cup
    (IF copybookdir = "d1"
     THEN {<<"MYBOOK", ".", "CPY">>, <<"MYBOOK", ".", "cpy", ".", "cpy">>, <<".", "cpy">>}
     ELSE {})

CopybookFileUniverse ==
    UNION {{pathJoin(<<d>>, n) : n \in CopybookFileNames(d)} : d \in CopybookDirs}
    \cup {pathJoin(<<"d1", "/", "sub">>, <<"MYBOOK", ".", "cpy">>),
          pathJoin(<<"d2", "/", "sub">>, <<"MYBOOK", ".", "cpy">>)}

\* getCombinedCopyBookSearchPath()
SearchPaths == {<<>>, <<"d1">>, <<"d1", "d2">>, <<"d2", "d1">>}

\* config.copybookexts
CopybookExts == {<<>>, <<"cpy", "CPY">>, <<"CPY", "cpy">>}

\* the names looked up
LookupNames == {<<>>, <<"MYBOOK">>, <<"MYBOOK", ".", "cpy">>, <<"OTHER">>}

\* COBOLStatUtils.isFile
isFile(possibleFile, files) == possibleFile \in files

\* filename.indexOf(".")
indexOfDot(filename) ==
    IF \E i \in DOMAIN filename : filename[i] = "."
    THEN (CHOOSE i \in DOMAIN filename :
            /\ filename[i] = "."
            /\ \A j \in 1..(i - 1) : filename[j] # ".") - 1
    ELSE 0 - 1

\* the extensions are tried for any name
extensionsToTryAlways(hasDot, copybookexts) == copybookexts

\* if (hasDot === -1) { for (const ext of config.copybookexts) ... }
extensionsToTry(hasDot, copybookexts) == IF hasDot = 0 - 1 THEN copybookexts ELSE <<>>

\* the inner loop: the first extension for which the file exists
RECURSIVE searchExtensions(_, _, _, _)
searchExtensions(copybookdir, filename, exts, files) ==
    IF exts = <<>> THEN <<>>
    ELSE LET possibleFile == pathJoin(copybookdir, filename \o <<".", Head(exts)>>)
         IN  IF isFile(possibleFile, files) THEN possibleFile
             ELSE searchExtensions(copybookdir, filename, Tail(exts), files)

\* the outer loop over the search path, scope telling where below a search
\* directory the files are looked for
RECURSIVE searchDirectories(_, _, _, _, _)
searchDirectories(dirs, scope(_), filename, copybookexts, files) ==
    IF dirs = <<>> THEN <<>>
    ELSE LET copybookdir == scope(Head(dirs))
             firstPossibleFile == pathJoin(copybookdir, filename)
             withExt == searchExtensions(copybookdir, filename,
                            extensionsToTry(indexOfDot(filename), copybookexts), files)
         IN  IF isFile(firstPossibleFile, files) THEN firstPossibleFile
             ELSE IF withExt # <<>> THEN withExt
             ELSE searchDirectories(Tail(dirs), scope, filename, copybookexts, files)

findCopyBook(filename, config, files) ==
    IF filename = <<>> THEN <<>>
    ELSE searchDirectories(config.searchPath, LAMBDA copybookdir : <<copybookdir>>,
                           filename, config.copybookexts, files)

\* the scope directory is left out
scopedDirectoryIgnored(baseCopybookdir, inDirectory) == <<baseCopybookdir>>

\* copybookdir = path.join(baseCopybookdir, inDirectory)
scopedDirectory(baseCopybookdir, inDirectory) == pathJoin(<<baseCopybookdir>>, <<inDirectory>>)

findCopyBookInDirectory(filename, inDirectory, config, files) ==
    IF filename = <<>> THEN <<>>
    ELSE searchDirectories(config.searchPath,
                           LAMBDA baseCopybookdir : scopedDirectory(baseCopybookdir, inDirectory),
                           filename, config.copybookexts, files)

InitResolve ==
    /\ IdleCache
    /\ IdleFingerprint
    /\ IdleScanner
    /\ IdleEnum
    /\ copybookFiles \in SUBSET CopybookFileUniverse
    /\ copybookConfig \in [searchPath : SearchPaths, copybookexts : CopybookExts]
    /\ lastFind = NoOp

\* a copybook name is looked up
CallFindCopyBook ==
    \E filename \in LookupNames :
        /\ lastFind' = [op |-> "findCopyBook", filename |-> filename,
                        result |-> findCopyBook(filename, copybookConfig, copybookFiles)]
        /\ UNCHANGED <<copybookFiles, copybookConfig, cacheVars, fingerprintVars,
                       scannerVars, enumVars>>

\* a copybook name is looked up in a directory (COPY ... IN directory); the
\* directory is not empty, expandLogicalCopyBookToFilenameOrEmpty calls
\* findCopyBook otherwise
CallFindCopyBookInDirectory ==
    \E filename \in LookupNames, inDirectory \in ScopeDirectories :
        /\ lastFind' = [op |-> "findCopyBookInDirectory", filename |-> filename,
                        inDirectory |-> inDirectory,
                        result |-> findCopyBookInDirectory(filename, inDirectory,
                                                           copybookConfig, copybookFiles)]
        /\ UNCHANGED <<copybookFiles, copybookConfig, cacheVars, fingerprintVars,
                       scannerVars, enumVars>>

NextResolve ==
    \/ CallFindCopyBook
    \/ CallFindCopyBookInDirectory

SpecResolve == InitResolve /\ [][NextResolve]_vars

\* the candidates of one search directory, in the order of the claim
DirectoryCandidates(copybookdir, filename) ==
    LET exts == copybookConfig.copybookexts
    IN  <<copybookdir \o <<"/">> \o filename>> \o
        (IF \A i \in DOMAIN filename : filename[i] # "."
         THEN [i \in DOMAIN exts |-> copybookdir \o <<"/">> \o filename \o <<".", exts[i]>>]
         ELSE <<>>)

\* the candidates of the whole search path, in the order of the claim
RECURSIVE CandidateList(_, _)
CandidateList(dirs, filename) ==
    IF dirs = <<>> THEN <<>>
    ELSE DirectoryCandidates(<<Head(dirs)>>, filename) \o CandidateList(Tail(dirs), filename)

\* C23 (copybook resolution order): findCopyBook returns the first existing
\* file of the candidate list (search directories in order; in a directory the
\* literal name, then, only for a name without a dot, name.ext for each
\* configured extension in order), and the empty result exactly when the name
\* is empty or no candidate exists.
ResolutionOrder ==
    lastFind.op = "findCopyBook" =>
        LET c == CandidateList(copybookConfig.searchPath, lastFind.filename)
            hits == {i \in DOMAIN c : c[i] \in copybookFiles}
        IN  /\ (lastFind.filename # <<>> /\ hits # {}) =>
                \E i \in hits :
                    /\ \A j \in hits : i <= j
                    /\ lastFind.result = c[i]
            /\ lastFind.result = <<>> <=> (lastFind.filename = <<>> \/ hits = {})

\* MYBOOK was resolved to MYBOOK.cpy of the second search directory, the only
\* candidate that exists
ResolutionOrderWitness ==
    /\ lastFind.op = "findCopyBook"
    /\ lastFind.filename = <<"MYBOOK">>
    /\ copybookConfig.searchPath = <<"d1", "d2">>
    /\ copybookConfig.copybookexts = <<"CPY", "cpy">>
    /\ copybookFiles = {<<"d2", "/", "MYBOOK", ".", "cpy">>, <<"d1", "/", "MYBOOK", ".", "cpy", ".", "cpy">>}
    /\ lastFind.result = <<"d2", "/", "MYBOOK", ".", "cpy">>

\* the candidates below the scope directory of each search directory
RECURSIVE ScopedCandidateList(_, _, _)
ScopedCandidateList(dirs, inDirectory, filename) ==
    IF dirs = <<>> THEN <<>>
    ELSE DirectoryCandidates(<<Head(dirs), "/", inDirectory>>, filename)
         \o ScopedCandidateList(Tail(dirs), inDirectory, filename)

\* C33 (scoped copybook resolution): findCopyBookInDirectory with a scope
\* directory returns the first existing candidate below
\* <searchDir>/<scopeDirectory> (search directories in order, literal name
\* then extensions), the empty result when there is none, and never a file
\* that lies directly in a search directory.
ScopedResolution ==
    lastFind.op = "findCopyBookInDirectory" =>
        LET c == ScopedCandidateList(copybookConfig.searchPath, lastFind.inDirectory,
                                     lastFind.filename)
            hits == {i \in DOMAIN c : c[i] \in copybookFiles}
        IN  /\ (lastFind.filename # <<>> /\ hits # {}) =>
                \E i \in hits :
                    /\ \A j \in hits : i <= j
                    /\ lastFind.result = c[i]
            /\ lastFind.result = <<>> <=> (lastFind.filename = <<>> \/ hits = {})
            /\ lastFind.result # <<>> =>
                /\ Len(lastFind.result) > 4
                /\ SubSeq(lastFind.result, 2, 4) = <<"/", lastFind.inDirectory, "/">>

\* MYBOOK IN sub was resolved to d2/sub/MYBOOK.cpy although d1/MYBOOK and
\* d2/MYBOOK.cpy exist directly in the search directories
ScopedResolutionWitness ==
    /\ lastFind.op = "findCopyBookInDirectory"
    /\ lastFind.filename = <<"MYBOOK">>
    /\ lastFind.inDirectory = "sub"
    /\ copybookConfig.searchPath = <<"d1", "d2">>
    /\ copybookConfig.copybookexts = <<"CPY", "cpy">>
    /\ copybookFiles = {<<"d1", "/", "MYBOOK">>, <<"d2", "/", "MYBOOK", ".", "cpy">>,
                        <<"d2", "/", "sub", "/", "MYBOOK", ".", "cpy">>}
    /\ lastFind.result = <<"d2", "/", "sub", "/", "MYBOOK", ".", "cpy">>

\* the configured program and copybook extensions
ConfiguredExtensions ==
    {wsDirs.program_extensions[i] : i \in DOMAIN wsDirs.program_extensions}
    \cup {wsDirs.copybookexts[i] : i \in DOMAIN wsDirs.copybookexts}

\* the name of the file entry ends with "." and a configured extension
HasConfiguredExtension(entry) ==
    LET parts == NameParts(entry)
    IN  /\ Len(parts) >= 2
        /\ parts[Len(parts) - 1] = "."
        /\ parts[Len(parts)] \in ConfiguredExtensions

\* the number of file entries of a set of directories
RECURSIVE FileEntries(_)
FileEntries(dirs) ==
    IF dirs = {} THEN 0
    ELSE LET d == CHOOSE d \in dirs : TRUE
         IN  Len(DirFiles(d)) + FileEntries(dirs \ {d})

\* C31 (file filter accounting): the candidate list holds exactly the file
\* entries of the listed directories whose extension is a configured program
\* or copybook extension; at every point of the scan fileCount is the length
\* of the candidate list and fileCount + filesIgnored is the number of file
\* entries examined.
FileFilterAccounting ==
    /\ Candidates =
        UNION {{d \o <<DirFiles(d)[i]>> :
                    i \in {j \in DOMAIN DirFiles(d) : HasConfiguredExtension(DirFiles(d)[j])}} :
               d \in Listed}
    /\ stats.fileCount = Len(files2scan)
    /\ stats.fileCount + stats.filesIgnored = FileEntries(Listed)

\* both workspace folders were scanned with the extensions cbl and cpy:
\* X.old.cbl and B.cpy were kept, OLD.CBL, Makefile and the file named cpy
\* were counted as ignored
FileFilterAccountingWitness ==
    /\ ScanDone
    /\ wsDirs.program_extensions = <<"cbl">>
    /\ {<<"ws", "X.old.cbl">>, <<"ws", "P.cbl">>, <<"lib", "B.cpy">>} \subseteq Candidates
    /\ <<"ws", "OLD.CBL">> \notin Candidates
    /\ <<"lib", "cpy">> \notin Candidates
    /\ stats.fileCount = 3
    /\ stats.filesIgnored = 4

(***************************************************************************)
(* SpecLoad: the cache is loaded from metadata arrays: by the worker at    *)
(* its start (cobscanner main) and by direct calls of the load functions.  *)
(* An item is the sequence of its comma-separated fields.                  *)
(***************************************************************************)
\* items of md_symbols: "name,file", and one without a comma
LoadSymbolItems == {<<"ALPHA", <<"A.cbl">>>>, <<"beta", <<"B.cpy">>>>, <<"ALPHA">>}

\* items of md_entrypoints: "name,file,line", and one with two fields
LoadEntryItems ==
    {<<"ALPHA-ENTRY", <<"A.cbl">>, 10>>, <<"OLD-ENTRY", <<"Z.cbl">>, 10>>, <<"beta", <<"A.cbl">>>>}

\* items of md_types: "category,name,file,line"
LoadTypeItems == {<<"T", "beta", <<"Z.cbl">>, 1>>, <<"I", "alpha", <<"A.cbl">>, 10>>}

\* items of md_metadata_files: "mtime,file" (A.cbl may exist in the workspace,
\* Z.cbl does not), and one with one field
LoadFileItems == {<<1, <<"A.cbl">>>>, <<1, <<"Z.cbl">>>>, <<1>>}

\* a cache that holds symbols of A.cbl and of Z.cbl in every mapping, and a
\* record of an earlier load
PopulatedCache ==
    addFilename(
        addClass(
            addClass(
                addEntryPoint(
                    addEntryPoint(
                        addSymbol(addSymbol(EmptyCache, <<"A.cbl">>, "ALPHA", 1),
                                  <<"Z.cbl">>, "beta", 1),
                        <<"A.cbl">>, "ALPHA-ENTRY", 10),
                    <<"Z.cbl">>, "OLD-ENTRY", 10),
                <<"Z.cbl">>, "beta", 1, "T"),
            <<"Z.cbl">>, "alpha", 10, "E"),
        <<"ws", "B.cpy">>, COBOLWorkspaceFile(1, <<"B.cpy">>))

InitLoad ==
    /\ InMemoryGlobalSymbolCache \in {EmptyCache, PopulatedCache}
    /\ lastOp = NoOp
    /\ fsMtime \in {EmptyMap, [f \in {<<"ws", "A.cbl">>} |-> 1]}
    /\ symFiles = EmptyMap
    /\ scannerFiles = EmptyMap
    /\ lastCheck = NoOp
    /\ IdleEnum
    /\ IdleResolver
    /\ IdleScanner

\* the worker, a fresh process, loads the metadata of its scan request
WorkerStartUpLoad ==
    \E md_symbols \in SUBSET LoadSymbolItems, md_entrypoints \in SUBSET LoadEntryItems,
       md_types \in SUBSET LoadTypeItems, md_metadata_files \in SUBSET LoadFileItems :
        LET md == [metadata_symbols |-> md_symbols, metadata_entrypoints |-> md_entrypoints,
                   metadata_types |-> md_types, metadata_files |-> md_metadata_files,
                   metadata_knowncopybooks |-> {}]
        IN  /\ lastOp = NoOp
            /\ InMemoryGlobalSymbolCache = EmptyCache
            /\ InMemoryGlobalSymbolCache' = loadSequence(InMemoryGlobalSymbolCache, fsMtime, md)
            /\ lastOp' = [op |-> "loadSequence", md |-> md,
                          tables |-> loadGlobalTypesCacheFromArray(
                                        loadGlobalEntryCacheFromArray(
                                            loadGlobalCacheFromArray(InMemoryGlobalSymbolCache,
                                                                     md_symbols, TRUE),
                                            md_entrypoints, TRUE),
                                        md_types, TRUE)]
            /\ UNCHANGED notCacheVars

\* loadGlobalEntryCacheFromArray is called on a cache
CallLoadGlobalEntryCacheFromArray ==
    \E symbols \in SUBSET LoadEntryItems, clear \in BOOLEAN :
        /\ lastOp = NoOp
        /\ InMemoryGlobalSymbolCache' =
                loadGlobalEntryCacheFromArray(InMemoryGlobalSymbolCache, symbols, clear)
        /\ lastOp' = [op |-> "loadGlobalEntryCacheFromArray", symbols |-> symbols,
                      clear |-> clear, before |-> InMemoryGlobalSymbolCache]
        /\ UNCHANGED notCacheVars

\* loadFileCacheFromArray is called on a cache
CallLoadFileCacheFromArray ==
    \E files \in SUBSET LoadFileItems, clear \in BOOLEAN :
        /\ lastOp = NoOp
        /\ InMemoryGlobalSymbolCache' =
                loadFileCacheFromArray(InMemoryGlobalSymbolCache, fsMtime, files, clear)
        /\ lastOp' = [op |-> "loadFileCacheFromArray", files |-> files,
                      clear |-> clear, before |-> InMemoryGlobalSymbolCache]
        /\ UNCHANGED notCacheVars

NextLoad ==
    \/ WorkerStartUpLoad
    \/ CallLoadGlobalEntryCacheFromArray
    \/ CallLoadFileCacheFromArray

SpecLoad == InitLoad /\ [][NextLoad]_vars

\* the entries of a mapping, each with its key
Entries(symbolsCache) ==
    UNION {{<<key, symbolsCache[key][i].filename, symbolsCache[key][i].lnum>> :
                i \in DOMAIN symbolsCache[key]} : key \in DOMAIN symbolsCache}

\* the entries the well-formed items of md_entrypoints stand for
EntryItems(symbols) ==
    {<<ToLower(it[1]), getFilenameWithoutPath(it[2]), it[3]>> :
        it \in {x \in symbols : Len(x) = 3}}

\* C35 (worker start-up load), as claimed: after the three loads of the symbol
\* tables callableSymbols holds an entry for every well-formed item of
\* md_symbols and entryPoints holds exactly the well-formed items of
\* md_entrypoints; loadGlobalEntryCacheFromArray with clear leaves exactly the
\* loaded items in entryPoints and callableSymbols as it was.
StartUpLoad ==
    /\ lastOp.op = "loadSequence" =>
        /\ \A it \in lastOp.md.metadata_symbols :
            Len(it) = 2 =>
                \E e \in Entries(lastOp.tables.callableSymbols) :
                    e[1] = ToLower(it[1]) /\ e[2] = getFilenameWithoutPath(it[2])
        /\ Entries(lastOp.tables.entryPoints) = EntryItems(lastOp.md.metadata_entrypoints)
    /\ (lastOp.op = "loadGlobalEntryCacheFromArray" /\ lastOp.clear) =>
        /\ Entries(InMemoryGlobalSymbolCache.entryPoints) = EntryItems(lastOp.symbols)
        /\ InMemoryGlobalSymbolCache.callableSymbols = lastOp.before.callableSymbols

\* the well-formed items of a files array and where they resolve to
FileItems(files) == {it \in files : Len(it) = 2}
Resolved(files) ==
    {it \in FileItems(files) : getFullWorkspaceFilename(fsMtime, it[2]) # Undefined}

\* C40 (loading file records drops unresolvable files): after
\* loadFileCacheFromArray every "mtime,file" item whose file resolves to a
\* workspace path has a SourceFileRecord under the full path, and there are
\* no other new records; of an item whose file does not resolve, no entry
\* point, type, interface or enum is left; every other entry, the program
\* symbols and the known copybooks are as they were, so that items without
\* exactly two fields have no effect.
FileRecordsLoaded ==
    lastOp.op = "loadFileCacheFromArray" =>
        LET before == lastOp.before
            after == InMemoryGlobalSymbolCache
            unresolved == {getFilenameWithoutPath(it[2]) :
                                it \in FileItems(lastOp.files) \ Resolved(lastOp.files)}
        IN  /\ \A it \in Resolved(lastOp.files) :
                LET fullDir == getFullWorkspaceFilename(fsMtime, it[2])
                IN  /\ fullDir \in DOMAIN after.sourceFilenameModified
                    /\ after.sourceFilenameModified[fullDir] = COBOLWorkspaceFile(it[1], it[2])
            /\ DOMAIN after.sourceFilenameModified =
                (IF lastOp.clear THEN {} ELSE DOMAIN before.sourceFilenameModified)
                \cup {getFullWorkspaceFilename(fsMtime, it[2]) : it \in Resolved(lastOp.files)}
            /\ \A field \in {"entryPoints", "types", "interfaces", "enums"} :
                Entries(after[field]) = {e \in Entries(before[field]) : e[2] \notin unresolved}
            /\ after.callableSymbols = before.callableSymbols
            /\ after.knownCopybooks = before.knownCopybooks

\* A.cbl exists and Z.cbl does not: the load left a record of ws/A.cbl, took
\* the entry point and the types of Z.cbl out of the cache and kept the entry
\* point of A.cbl and the program symbol of Z.cbl
FileRecordsLoadedWitness ==
    /\ lastOp.op = "loadFileCacheFromArray"
    /\ lastOp.files = LoadFileItems
    /\ lastOp.before = PopulatedCache
    /\ <<"ws", "A.cbl">> \in DOMAIN InMemoryGlobalSymbolCache.sourceFilenameModified
    /\ Entries(InMemoryGlobalSymbolCache.entryPoints) = {<<"alpha-entry", <<"A.cbl">>, 10>>}
    /\ Entries(InMemoryGlobalSymbolCache.types) = {}
    /\ Entries(InMemoryGlobalSymbolCache.enums) = {}
    /\ <<"beta", <<"Z.cbl">>, 1>> \in Entries(InMemoryGlobalSymbolCache.callableSymbols)

(***************************************************************************)
(* SpecRoots: the directory enumeration over workspace folders of which    *)
(* one lies inside another.                                                *)
(***************************************************************************)
\* the workspace folders: ws and ws/d1 in either order, possibly followed by lib
NestedWorkspaceFolders(tree) ==
    {roots \o (IF LibRoot \in tree THEN <<LibRoot>> ELSE <<>>) :
        roots \in {<<WsRoot, <<"ws", "d1">>>>, <<<<"ws", "d1">>, WsRoot>>}}

InitRoots ==
    /\ IdleCache
    /\ IdleFingerprint
    /\ IdleScanner
    /\ IdleResolver
    /\ \E tree \in DirTrees, unreadable \in SUBSET DirUniverse, limit \in 0..MaxDepthLimit,
          exts \in ExtensionSettings :
        /\ <<"ws", "d1">> \in tree
        /\ unreadable \subseteq tree
        /\ wsDirs = [dirs |-> tree, unreadable |-> unreadable, limit |-> limit,
                     program_extensions |-> exts.program_extensions,
                     copybookexts |-> exts.copybookexts]
        /\ rootsLeft \in NestedWorkspaceFolders(tree)
    /\ callStack = <<>>
    /\ stats = NewScanStats
    /\ files2scan = <<>>
    /\ scanLog = {}

SpecRoots == InitRoots /\ [][NextDirs]_vars

\* the number of files the listed directories hold for scanning
RECURSIVE KeptEntries(_)
KeptEntries(dirs) ==
    IF dirs = {} THEN 0
    ELSE LET d == CHOOSE d \in dirs : TRUE
         IN  Len(KeptFiles(d)) + KeptEntries(dirs \ {d})

\* C36 (candidate list has no duplicates): with workspace folders of which one
\* lies inside another, every directory contributes its files at most once
\* (the candidate list is as long as the kept files of the directories listed)
\* and no file path is twice in the candidate list.
NoDuplicateCandidates ==
    /\ \A i, j \in DOMAIN files2scan : files2scan[i] = files2scan[j] => i = j
    /\ Len(files2scan) = KeptEntries(Listed)

\* ws/d1 was met a second time, as a workspace folder or below ws, and was not
\* enumerated again
NoDuplicateCandidatesWitness ==
    /\ ScanDone
    /\ wsDirs.unreadable = {}
    /\ wsDirs.limit >= 1
    /\ {WsRoot, <<"ws", "d1">>} \subseteq Listed
    /\ stats.directoriesScanned = Cardinality(Listed) + 1
    /\ <<"ws", "d1", "P.cbl">> \in Candidates

(***************************************************************************)
(* SpecProgress: one worker on a workspace scan of twenty files or more,   *)
(* and the coordinator's message and exit handlers.                        *)
(***************************************************************************)
MaxScanFiles == 41

ScanDirNames == <<"d0", "d1", "d2", "d3", "d4">>
ScanFileNames == <<"P0.cbl", "P1.cbl", "P2.cbl", "P3.cbl", "P4.cbl",
                   "P5.cbl", "P6.cbl", "P7.cbl", "P8.cbl", "P9.cbl">>

\* the i-th file the enumeration of the workspace found
ScanFile(i) ==
    <<"ws", ScanDirNames[((i - 1) \div 10) + 1], ScanFileNames[((i - 1) % 10) + 1]>>

\* the candidate list of a workspace of n files
ScanFiles(n) == [i \in 1..n |-> ScanFile(i)]

\* the sizes of the workspaces scanned
ScanFileCounts == {19, 20, 39, 40, MaxScanFiles}

\* a worker was forked for a workspace scan (sf.fileCount = stats.fileCount,
\* the length of the candidate list); the cache directory holds an artifact
\* for every file or for none
InitProgress ==
    /\ IdleCache
    /\ IdleEnum
    /\ IdleResolver
    /\ scannerFiles = EmptyMap
    /\ lastCheck = NoOp
    /\ activePid = 1
    /\ cacheDirectory = CacheDir
    /\ foreignPids = {}
    /\ pendingScans = [viaCommand \in BOOLEAN |-> 0]
    /\ settings = EmptyMetadata
    /\ workspaceStore = EmptyMetadata
    /\ progressStatusBarItem = [visible |-> FALSE, text |-> -1]
    /\ lastRequest = NoOp
    /\ lastExit = NoOp
    /\ lastMessage = NoOp
    /\ \E n \in ScanFileCounts, showMessage \in BOOLEAN, cached \in BOOLEAN :
        LET files == ScanFiles(n)
            sf == ScanData(files, n, showMessage, EmptyMetadata)
        IN  /\ fsMtime = [f \in {files[i] : i \in 1..n} |-> 1]
            /\ symFiles = [fn \in {SymFileFor(CacheDir, files[i]) :
                                        i \in IF cached THEN 1..n ELSE {}} |-> 1]
            /\ jsonFiles = [j \in {JsonFile(TempDir)} |-> sf]
            /\ workers = [pid \in {1} |-> NewWorker(showMessage)]

NextProgress ==
    \/ WorkerLoad
    \/ WorkerScanFile
    \/ WorkerFinish
    \/ OnMessage
    \/ OnExit

SpecProgress == InitProgress /\ [][NextProgress]_vars

\* the STATUS messages a worker has sent and the coordinator has not handled yet
PendingStatus(w) == SelectSeq(w.chan, LAMBDA m : m.tag = COBSCANNER_STATUS)

\* every pending STATUS message has 1 <= current <= total, its percentage is
\* in 0..100, the messages are in strictly increasing order of current, and
\* none is ahead of the worker's file counter
ProgressBounded ==
    \A pid \in DOMAIN workers :
        LET w == workers[pid]
            st == PendingStatus(w)
        IN  /\ w.prevPercent \in 0..100
            /\ \A i \in DOMAIN st :
                /\ 1 <= st[i].current
                /\ st[i].current <= st[i].total
                /\ Percent(st[i].current, st[i].total) \in 0..100
                /\ w.exitCode = -1 =>
                    /\ st[i].total = Len(w.scanData.Files)
                    /\ st[i].current <= w.fCount
                /\ i < Len(st) => st[i].current < st[i + 1].current

\* a STATUS message the worker sends is ahead of every one it sent before, and
\* the percentage the coordinator computes for a message is not below the
\* previous one
ProgressStep ==
    \A pid \in DOMAIN workers :
        LET w == workers[pid]
            st == PendingStatus(w)
            stNext == PendingStatus(workers'[pid])
        IN  /\ (w.exitCode = -1 /\ workers'[pid].exitCode = -1) =>
                    workers'[pid].fCount >= w.fCount
            /\ Len(stNext) > Len(st) => stNext[Len(stNext)].current > w.fCount
            /\ workers'[pid].prevPercent >= w.prevPercent
            /\ (lastMessage'.op = "message" /\ lastMessage'.msg.tag = COBSCANNER_STATUS) =>
                    /\ Percent(lastMessage'.msg.current, lastMessage'.msg.total)
                            >= w.prevPercent
                    /\ workers'[pid].prevPercent =
                            Percent(lastMessage'.msg.current, lastMessage'.msg.total)

\* C37 (progress values are bounded and monotone): every STATUS message of a
\* worker has 1 <= current <= total with total the length of the file list,
\* current strictly increases from one STATUS message of a scan to the next,
\* and the percentage of the coordinator lies in 0..100 and never decreases.
ProgressBoundedMonotone == []ProgressBounded /\ [][ProgressStep]_vars

\* a scan of 40 files: STATUS after every second file; the coordinator has
\* handled the message of file 20 and the one of file 40 is pending
ProgressBoundedMonotoneWitness ==
    /\ workers[1].exitCode = -1
    /\ Len(workers[1].scanData.Files) = 40
    /\ workers[1].fCount = 40
    /\ workers[1].prevPercent = 50
    /\ PendingStatus(workers[1]) # <<>>
    /\ PendingStatus(workers[1])[Len(PendingStatus(workers[1]))].current = 40

(***************************************************************************)
(* SpecTables: the add and remove entry points of the helper called        *)
(* directly, for three source files.                                       *)
(***************************************************************************)
\* the files symbols are attributed to
TableFiles == MsgFiles \cup {<<"ws", "C.cbl">>}

\* the symbol names added
TableNames == {"ALPHA", "beta"}

\* the lines of entry points and classes: never the marker value 1 that
\* addSymbol has as its default
OccurrenceLines == LineNumbers \ {1}

\* TypeCategory
TypeCategories == {"T", "I", "E"}

\* the fields of the cache other than the dirty flag
CacheTables == SymbolMaps \cup {"knownCopybooks", "sourceFilenameModified"}

\* the add entry points of the helper, called directly
CallAddSymbol ==
    \E name \in TableNames, line \in LineNumbers, f \in TableFiles :
        LET next == addSymbol(InMemoryGlobalSymbolCache, f, name, line)
        IN  /\ TotalEntries(next) <= Cardinality(TableFiles)
            /\ InMemoryGlobalSymbolCache' = next
            /\ lastOp' = [op |-> "addSymbol", category |-> ""]
            /\ UNCHANGED notCacheVars

CallAddEntryPoint ==
    \E name \in TableNames, line \in OccurrenceLines, f \in TableFiles :
        LET next == addEntryPoint(InMemoryGlobalSymbolCache, f, name, line)
        IN  /\ TotalEntries(next) <= Cardinality(TableFiles)
            /\ InMemoryGlobalSymbolCache' = next
            /\ lastOp' = [op |-> "addEntryPoint", category |-> ""]
            /\ UNCHANGED notCacheVars

CallAddClass ==
    \E name \in TableNames, line \in OccurrenceLines, f \in TableFiles,
       category \in TypeCategories :
        LET next == addClass(InMemoryGlobalSymbolCache, f, name, line, category)
        IN  /\ TotalEntries(next) <= Cardinality(TableFiles)
            /\ InMemoryGlobalSymbolCache' = next
            /\ lastOp' = [op |-> "addClass", category |-> category]
            /\ UNCHANGED notCacheVars

NextTables ==
    \/ CallAddSymbol
    \/ CallAddEntryPoint
    \/ CallAddClass
    \/ CallRemoveAllPrograms
    \/ CallRemoveAllProgramEntryPoints
    \/ CallRemoveAllTypes

SpecTables == InitCache /\ [][NextTables]_vars

\* the entries of a bucket that belong to other files than filename
OtherEntries(symbolsCache, key, filename) ==
    IF key \in DOMAIN symbolsCache
    THEN SelectSeq(symbolsCache[key], LAMBDA s : s.filename # filename)
    ELSE <<>>

\* of the tables of the cache, at most `field` differs between old and new
OnlyChanges(field, old, new) ==
    \A other \in CacheTables \ {field} : new[other] = old[other]

TableIsolationStep ==
    LET old == InMemoryGlobalSymbolCache
        new == InMemoryGlobalSymbolCache'
        op == lastOp'
    IN  /\ op.op = "addSymbol" => OnlyChanges("callableSymbols", old, new)
        /\ op.op = "addEntryPoint" => OnlyChanges("entryPoints", old, new)
        /\ op.op = "addClass" =>
                /\ op.category = "T" => OnlyChanges("types", old, new)
                /\ op.category = "I" => OnlyChanges("interfaces", old, new)
                /\ op.category = "E" => OnlyChanges("enums", old, new)
        /\ op.op \in {"removeAllPrograms", "removeAllProgramEntryPoints", "removeAllTypes"} =>
                \A field \in SymbolMaps : \A key \in DOMAIN old[field] :
                    OtherEntries(new[field], key, op.filename)
                        = OtherEntries(old[field], key, op.filename)

\* C38 (table isolation of adds and removes): addSymbol changes only
\* callableSymbols, addEntryPoint only entryPoints, addClass only the mapping
\* of its category; a removal of file F leaves the entries of every other
\* file in every bucket, with their line numbers and in their order.
TableIsolation == [][TableIsolationStep]_vars

\* A.cbl was removed from a bucket of callableSymbols that held entries of
\* three files; the entries of B.cpy and C.cbl are left, with their lines and
\* in their order
TableIsolationWitness ==
    /\ lastOp.op = "removeAllPrograms"
    /\ lastOp.filename = <<"A.cbl">>
    /\ lastOp.hit
    /\ "alpha" \in DOMAIN InMemoryGlobalSymbolCache.callableSymbols
    /\ InMemoryGlobalSymbolCache.callableSymbols["alpha"]
            = <<COBOLFileSymbol(<<"B.cpy">>, 10), COBOLFileSymbol(<<"C.cbl">>, 1)>>

(***************************************************************************)
(* SpecActive: IsScannerActive called while a worker runs, dies, has its   *)
(* exit handled, and its process id is taken by a process of another user. *)
(***************************************************************************)
\* the directories IsScannerActive is asked about
LockDirectories == {CacheDir, TempDir}

\* no worker was forked (or the fork failed and left activePid undefined), or
\* worker 1 runs; scan request files may lie in either directory
InitActive ==
    /\ IdleCache
    /\ IdleFingerprint
    /\ IdleEnum
    /\ IdleResolver
    /\ \/ /\ workers = EmptyMap
          /\ activePid \in {0, UndefinedPid}
       \/ /\ workers = [pid \in {1} |-> NewWorker(FALSE)]
          /\ activePid = 1
    /\ cacheDirectory \in LockDirectories
    /\ foreignPids = {}
    /\ \E dirs \in SUBSET LockDirectories :
            jsonFiles = [j \in {JsonFile(d) : d \in dirs} |-> StaleScanData]
    /\ pendingScans = [viaCommand \in BOOLEAN |-> 0]
    /\ settings = EmptyMetadata
    /\ workspaceStore = EmptyMetadata
    /\ progressStatusBarItem = [visible |-> FALSE, text |-> -1]
    /\ lastRequest = NoOp
    /\ lastExit = NoOp
    /\ lastMessage = NoOp

\* VSCobScanner.IsScannerActive(cacheDirectory) is called
CallIsScannerActive ==
    \E dir \in LockDirectories :
        /\ lastRequest' = [op |-> "IsScannerActive", dir |-> dir,
                           result |-> IsScannerActive(dir)]
        /\ lastExit' = NoOp
        /\ lastMessage' = NoOp
        /\ UNCHANGED <<activePid, cacheDirectory, foreignPids, jsonFiles, pendingScans,
                       workers, settings, workspaceStore, progressStatusBarItem>>
        /\ UNCHANGED <<cacheVars, fingerprintVars, enumVars, resolverVars>>

\* the process id of an ended worker is given to a process of another user
PidReused ==
    \E pid \in DOMAIN workers :
        /\ workers[pid].exitCode # -1
        /\ pid \notin foreignPids
        /\ foreignPids' = foreignPids \cup {pid}
        /\ lastRequest' = NoOp
        /\ lastExit' = NoOp
        /\ lastMessage' = NoOp
        /\ UNCHANGED <<activePid, cacheDirectory, jsonFiles, pendingScans,
                       workers, settings, workspaceStore, progressStatusBarItem>>
        /\ UNCHANGED <<cacheVars, fingerprintVars, enumVars, resolverVars>>

NextActive ==
    \/ CallIsScannerActive
    \/ WorkerCrash
    \/ OnExit
    \/ PidReused

SpecActive == InitActive /\ [][NextActive]_vars

\* C39 (IsScannerActive result): IsScannerActive returns true exactly when
\* the scan request file exists in the given directory, or activePid is not 0
\* and the probe of that process succeeds or fails with EPERM; with
\* activePid = 0 the file alone decides.
ScannerActiveResult ==
    lastRequest.op = "IsScannerActive" =>
        LET jsonFileExists == JsonFile(lastRequest.dir) \in DOMAIN jsonFiles
            probe == processKill(activePid)
        IN  /\ lastRequest.result
                = (jsonFileExists \/ (activePid # 0 /\ probe \in {"true", "EPERM"}))
            /\ activePid = 0 => lastRequest.result = jsonFileExists

\* no scan request file in the directory, the worker is dead and its process
\* id belongs to a process of another user: the scanner counts as active
ScannerActiveResultWitness ==
    /\ lastRequest.op = "IsScannerActive"
    /\ JsonFile(lastRequest.dir) \notin DOMAIN jsonFiles
    /\ activePid = 1
    /\ processKill(activePid) = "EPERM"
    /\ lastRequest.result

====
